---- MODULE Spec2Model ----
(***************************************************************************)
(* A model of the daisymultieffect converter tools:                        *)
(*   tools/converters/convert_ir_to_cpp.py     (WAV impulse responses)     *)
(*   tools/converters/convert_aidax_to_cpp.py  (AIDA-X model JSON)         *)
(*   tools/converters/verify_conversion.py     (round-trip verifier)       *)
(*                                                                         *)
(* Numbers.  TLC has 32-bit integers and no floats, so:                    *)
(*  - IR sample values are exact rationals <<n, d>> (d > 0, reduced).  The *)
(*    inputs drawn below are dyadic, for which the float operations of the *)
(*    code (division by a power-of-two peak, the fade i/64) are exact;     *)
(*  - the resampler's new_length is computed in IEEE-754 double precision, *)
(*    bit by bit (53-bit mantissas as sequences of bits), because its      *)
(*    value depends on the rounding of dst_rate / src_rate;                *)
(*  - model weights are decimal literals whole.nano (nine decimals); their *)
(*    8-decimal text form and their float32 value are computed exactly.    *)
(***************************************************************************)
EXTENDS Integers, Sequences, FiniteSets, TLC

VARIABLES
    tool,       \* which converter runs: "ir" or "aidax"
    batch,      \* args.batch
    input,      \* what args.input names: a directory, a file, or nothing
    writable,   \* whether the output directory can be written
    pc,         \* position of main(): "start", "loop", "exit"
    todo,       \* batch: the sorted files still to convert
    nfiles,     \* batch: len(wav_files) / len(json_files)
    success,    \* batch: the success counter
    calls,      \* log: the files convert_file was called on, with its result
    out,        \* the output directory: identifier -> artifact written
    last,       \* what the last convert_file call computed
    exitCode,   \* the process exit code (-1 while running)
    fin,        \* input of the pure-function specifications
    fout        \* output of the pure-function specifications

vars == <<tool, batch, input, writable, pc, todo, nfiles, success, calls, out,
          last, exitCode, fin, fout>>

(***************************************************************************)
(* Small arithmetic helpers.                                               *)
(***************************************************************************)
Abs(n) == IF n < 0 THEN -n ELSE n

Min(a, b) == IF a < b THEN a ELSE b

Pow2(k) == 2^k

\* A call that raised: the exception, or the message of its ValueError.
Err(e) == [ok |-> FALSE, err |-> e]

RECURSIVE Gcd(_, _)
Gcd(a, b) == IF b = 0 THEN a ELSE Gcd(b, a % b)

\* Exact rationals <<n, d>>, d > 0, in lowest terms.
Rat(n, d) ==
    LET g == Gcd(Abs(n), Abs(d))
        s == IF d < 0 THEN -1 ELSE 1
    IN  <<s * (n \div g), s * (d \div g)>>

\* Products and sums reduce before they multiply, to stay in 32 bits.
RMul(a, b) ==
    LET g1 == Gcd(Abs(a[1]), b[2])
        g2 == Gcd(Abs(b[1]), a[2])
    IN  Rat((a[1] \div g1) * (b[1] \div g2), (a[2] \div g2) * (b[2] \div g1))

RDiv(a, b) == RMul(a, IF b[1] < 0 THEN <<-b[2], -b[1]>> ELSE <<b[2], b[1]>>)

RAdd(a, b) ==
    LET g == Gcd(a[2], b[2])
    IN  Rat(a[1] * (b[2] \div g) + b[1] * (a[2] \div g), (a[2] \div g) * b[2])

RSub(a, b) == RAdd(a, <<-b[1], b[2]>>)

RAbs(a) == <<Abs(a[1]), a[2]>>

RLeq(a, b) == a[1] * b[2] <= b[1] * a[2]

RZero == <<0, 1>>

ROne == <<1, 1>>

\* max(abs(s) for s in samples), for a non-empty sequence.
PeakOf(samples) ==
    LET S == {RAbs(samples[i]) : i \in DOMAIN samples}
    IN  CHOOSE m \in S : \A x \in S : RLeq(x, m)

(***************************************************************************)
(* IEEE-754 double precision, for  ratio = dst_rate / src_rate  and        *)
(* int(len(data) * ratio).  A double is [e, m]: m a sequence of 53 bits,   *)
(* most significant first, m[1] = 1, of value m * 2^(e - 52).  Long        *)
(* division and multiplication work on limbs of LimbBits bits.             *)
(***************************************************************************)
MantBits == 53

LimbBits == 8

LimbBase == Pow2(LimbBits)

\* The largest e >= 0 with b * 2^e <= a (for a >= b > 0).
RECURSIVE ShiftUp(_, _)
ShiftUp(a, b) == IF 2 * b <= a THEN 1 + ShiftUp(a, 2 * b) ELSE 0

\* The least k >= 0 with a * 2^k >= b (for a, b > 0).
RECURSIVE ShiftDown(_, _)
ShiftDown(a, b) == IF a >= b THEN 0 ELSE 1 + ShiftDown(2 * a, b)

\* The bits of a sequence of limbs, most significant first.
LimbsToBits(limbs) ==
    [p \in 1..(Len(limbs) * LimbBits) |->
        (limbs[((p - 1) \div LimbBits) + 1]
            \div Pow2(LimbBits - 1 - ((p - 1) % LimbBits))) % 2]

\* The limbs of a sequence of bits whose length is a multiple of LimbBits.
LimbsOfBits(bits) ==
    [j \in 1..(Len(bits) \div LimbBits) |->
        LET b(k) == bits[(j - 1) * LimbBits + k]
        IN  128 * b(1) + 64 * b(2) + 32 * b(3) + 16 * b(4)
              + 8 * b(5) + 4 * b(6) + 2 * b(7) + b(8)]

\* The next k limbs of the quotient r / den (0 <= r < den), then the
\* remainder: long division.
RECURSIVE DivLimbs(_, _, _)
DivLimbs(r, den, k) ==
    IF k = 0 THEN [limbs |-> <<>>, rem |-> r]
    ELSE LET x    == r * LimbBase
             rest == DivLimbs(x % den, den, k - 1)
         IN  [limbs |-> <<x \div den>> \o rest.limbs, rem |-> rest.rem]

\* bits + 1, as a sequence one longer when the carry runs out of the top.
IncBits(bits) ==
    LET n     == Len(bits)
        zeros == {i \in 1..n : bits[i] = 0}
    IN  IF zeros = {} THEN <<1>> \o [i \in 1..n |-> 0]
        ELSE LET z == CHOOSE i \in zeros : \A j \in zeros : j <= i
             IN  [i \in 1..n |-> IF i < z THEN bits[i]
                                 ELSE IF i = z THEN 1 ELSE 0]

\* bits without its leading zeros.
StripZeros(bits) ==
    LET ones == {i \in 1..Len(bits) : bits[i] = 1}
    IN  IF ones = {} THEN <<>>
        ELSE LET f == CHOOSE i \in ones : \A j \in ones : i <= j
             IN  SubSeq(bits, f, Len(bits))

\* Round-to-nearest-even of the bit string `bits` (leading bit 1, of value
\* bits * 2^x) with `sticky` telling whether non-zero bits follow it, to
\* MantBits bits.
RoundBits(bits, x, sticky) ==
    LET n == Len(bits)
    IN  IF n <= MantBits
        THEN [e |-> x + n - 1,
              m |-> bits \o [i \in 1..(MantBits - n) |-> 0]]
        ELSE LET keep == SubSeq(bits, 1, MantBits)
                 rnd  == bits[MantBits + 1]
                 tail == sticky \/ \E i \in (MantBits + 2)..n : bits[i] = 1
                 up   == rnd = 1 /\ (tail \/ keep[MantBits] = 1)
                 inc  == IF up THEN IncBits(keep) ELSE keep
             IN  IF Len(inc) > MantBits
                 THEN [e |-> x + n, m |-> SubSeq(inc, 1, MantBits)]
                 ELSE [e |-> x + n - 1, m |-> inc]

\* The double nearest to a / b, for integers a, b > 0: the leading one and
\* seven limbs (56 bits) of the quotient, rounded.
DblDiv(a, b) ==
    LET up   == IF a >= b THEN ShiftUp(a, b) ELSE 0
        down == IF a >= b THEN 0 ELSE ShiftDown(a, b)
        num  == a * Pow2(down)
        den  == b * Pow2(up)
        q    == DivLimbs(num - den, den, 7)
        bits == <<1>> \o LimbsToBits(q.limbs)
    IN  RoundBits(bits, (up - down) - (Len(bits) - 1), q.rem # 0)

\* The limbs of a carry, most significant first.
RECURSIVE CarryLimbs(_)
CarryLimbs(c) ==
    IF c = 0 THEN <<>> ELSE CarryLimbs(c \div LimbBase) \o <<c % LimbBase>>

\* The limbs of n * m for limbs m[1..i], by schoolbook multiplication from
\* the least significant limb.
RECURSIVE MulLimbs(_, _, _, _)
MulLimbs(n, m, i, carry) ==
    IF i = 0 THEN CarryLimbs(carry)
    ELSE LET acc == n * m[i] + carry
         IN  MulLimbs(n, m, i - 1, acc \div LimbBase) \o <<acc % LimbBase>>

\* The double nearest to n * d, for an integer n >= 1 and a double d: the
\* mantissa is padded with three zero bits to a whole number of limbs.
DblMulInt(n, d) ==
    LET m56 == LimbsOfBits(d.m \o <<0, 0, 0>>)
        p   == StripZeros(LimbsToBits(MulLimbs(n, m56, Len(m56), 0)))
    IN  RoundBits(p, d.e - (MantBits - 1) - 3, FALSE)

\* The value of at most 31 bits.
BitsToInt(bits) ==
    LET n == Len(bits)
        S == {i \in 1..n : bits[i] = 1}
        RECURSIVE Sum(_)
        Sum(T) == IF T = {} THEN 0
                  ELSE LET i == CHOOSE j \in T : TRUE
                       IN  Pow2(n - i) + Sum(T \ {i})
    IN  Sum(S)

\* int(d) for a double d >= 0 below 2^31: the bits above the binary point.
DblToInt(d) ==
    IF d.e < 0 THEN 0 ELSE BitsToInt(SubSeq(d.m, 1, d.e + 1))

(***************************************************************************)
(* convert_ir_to_cpp.py: the processing stages.                            *)
(***************************************************************************)
MAX_IR_LENGTH == 2048

TARGET_SAMPLE_RATE == 48000

\* new_length = int(len(data) * ratio), in double precision.
NewLength(n, src_rate, dst_rate) ==
    IF n = 0 THEN 0 ELSE DblToInt(DblMulInt(n, DblDiv(dst_rate, src_rate)))

\* simple_resample whose early return hands back the (still empty) result
\* list instead of data.
simple_resample_empty(data, src_rate, dst_rate) ==
    IF src_rate = dst_rate THEN <<>>
    ELSE [k \in 1..NewLength(Len(data), src_rate, dst_rate) |->
            LET i    == k - 1
                idx  == (i * src_rate) \div dst_rate
                frac == Rat((i * src_rate) % dst_rate, dst_rate)
            IN  IF idx + 1 < Len(data)
                THEN RAdd(RMul(data[idx + 1], RSub(ROne, frac)),
                          RMul(data[idx + 2], frac))
                ELSE IF idx < Len(data) THEN data[idx + 1] ELSE RZero]

\* simple_resample, for rates > 0.  Sample positions and values are exact
\* rationals; data is 1-indexed, so data[idx] of the code is data[idx + 1].
simple_resample(data, src_rate, dst_rate) ==
    IF src_rate = dst_rate THEN data
    ELSE [k \in 1..NewLength(Len(data), src_rate, dst_rate) |->
            LET i    == k - 1
                idx  == (i * src_rate) \div dst_rate
                frac == Rat((i * src_rate) % dst_rate, dst_rate)
            IN  IF idx + 1 < Len(data)
                THEN RAdd(RMul(data[idx + 1], RSub(ROne, frac)),
                          RMul(data[idx + 2], frac))
                ELSE IF idx < Len(data) THEN data[idx + 1] ELSE RZero]

\* normalize_ir: max() of an empty sequence raises ValueError.
normalize_ir(samples) ==
    IF Len(samples) = 0 THEN [ok |-> FALSE, err |-> "ValueError"]
    ELSE LET peak == PeakOf(samples)
         IN  [ok |-> TRUE, peak |-> peak,
              samples |-> IF peak[1] > 0
                          THEN [i \in DOMAIN samples |-> RDiv(samples[i], peak)]
                          ELSE samples]

\* truncate_ir that fades in place but forgets to cut.
truncate_ir_uncut(samples, max_length) ==
    IF Len(samples) <= max_length THEN samples
    ELSE LET fade_len == Min(64, max_length \div 8)
         IN  [k \in 1..Len(samples) |->
                LET i == (k - 1) - (max_length - fade_len)
                IN  IF i >= 0 /\ i < fade_len
                    THEN RMul(samples[k], RSub(ROne, Rat(i, fade_len)))
                    ELSE samples[k]]

\* truncate_ir, for max_length >= 0.
truncate_ir(samples, max_length) ==
    IF Len(samples) <= max_length THEN samples
    ELSE LET fade_len == Min(64, max_length \div 8)
         IN  [k \in 1..max_length |->
                LET i == (k - 1) - (max_length - fade_len)
                IN  IF i >= 0
                    THEN RMul(samples[k], RSub(ROne, Rat(i, fade_len)))
                    ELSE samples[k]]

\* truncate_ir whose result shares its storage with `samples`, as a view
\* does: the fade written into the result shows in the list passed.
truncate_ir_aliased(samples, max_length) ==
    [samples |-> truncate_ir_uncut(samples, max_length),
     result  |-> truncate_ir(samples, max_length)]

\* The two lists once truncate_ir has returned.  For a list longer than
\* max_length, result = samples[:max_length] is a new list and the fade is
\* written into it alone; otherwise the list passed is returned as it is.
truncate_ir_heap(samples, max_length) ==
    [samples |-> samples, result |-> truncate_ir(samples, max_length)]

(***************************************************************************)
(* The chunks of a RIFF/WAVE file.  After the 12 bytes of magic the file   *)
(* is a sequence of chunks: "fmt " with the fields the code unpacks,       *)
(* "data" with its payload `raw` (bytes 0..255), any other id with a       *)
(* payload that is skipped; each holds the payload bytes its header        *)
(* declares.  `tail` is what follows the last chunk: nothing ("none"),     *)
(* fewer than 4 bytes ("id"), or an id and fewer than 4 bytes of its size  *)
(* ("size").  A 32-bit float sample is [neg, e, m], m * 2^(e - 23).        *)
(***************************************************************************)
\* The data branch that takes every integer as unsigned.
decode_data_unsigned(st, raw_data) ==
    CASE st.bits_per_sample = 16 /\ Len(raw_data) % 2 = 0 ->
           [st EXCEPT !.data_found = TRUE,
                      !.audio_data =
                         [i \in 1..(Len(raw_data) \div 2) |->
                            Rat(raw_data[2 * i - 1] + 256 * raw_data[2 * i],
                                32768)]]
      [] st.bits_per_sample = 24 /\ Len(raw_data) % 3 = 0 ->
           [st EXCEPT !.data_found = TRUE,
                      !.audio_data =
                         [i \in 1..(Len(raw_data) \div 3) |->
                            Rat(raw_data[3 * i - 2] + 256 * raw_data[3 * i - 1]
                                  + 65536 * raw_data[3 * i], 8388608)]]
      [] OTHER -> [st EXCEPT !.err = "struct.error"]

\* The data branch of read_wav_simple: raw_data decoded at the bit depth
\* known so far.  '<h' reads a two's-complement 16-bit integer; a 24-bit
\* sample is extended by the byte 0xff when bit 7 of its third byte is set
\* and read as '<i', which is the 24-bit value less 2^24; '<f' reads sign,
\* 8 bits of exponent and 23 of fraction.  unpack raises struct.error when
\* the payload is not a whole number of samples, and b[2] IndexError when
\* the last 24-bit sample is short.
decode_data(st, raw_data) ==
    LET Signed(u, top) == IF u >= top THEN u - 2 * top ELSE u
        Float(b) ==
            LET exp  == (b[4] % 128) * 2 + b[3] \div 128
                frac == (b[3] % 128) * 65536 + b[2] * 256 + b[1]
            IN  [neg |-> b[4] >= 128,
                 e   |-> IF exp = 0 THEN (IF frac = 0 THEN 0 ELSE -126)
                         ELSE exp - 127,
                 m   |-> IF exp = 0 THEN frac ELSE frac + 8388608]
    IN  CASE st.bits_per_sample = 16 ->
               IF Len(raw_data) % 2 # 0 THEN [st EXCEPT !.err = "struct.error"]
               ELSE [st EXCEPT !.data_found = TRUE,
                       !.audio_data =
                          [i \in 1..(Len(raw_data) \div 2) |->
                             Rat(Signed(raw_data[2 * i - 1]
                                          + 256 * raw_data[2 * i], 32768),
                                 32768)]]
          [] st.bits_per_sample = 24 ->
               IF Len(raw_data) % 3 # 0 THEN [st EXCEPT !.err = "IndexError"]
               ELSE [st EXCEPT !.data_found = TRUE,
                       !.audio_data =
                          [i \in 1..(Len(raw_data) \div 3) |->
                             Rat(Signed(raw_data[3 * i - 2]
                                          + 256 * raw_data[3 * i - 1]
                                          + 65536 * raw_data[3 * i], 8388608),
                                 8388608)]]
          [] st.bits_per_sample = 32 ->
               IF Len(raw_data) % 4 # 0 THEN [st EXCEPT !.err = "struct.error"]
               ELSE [st EXCEPT !.data_found = TRUE,
                       !.audio_data =
                          [i \in 1..(Len(raw_data) \div 4) |->
                             Float(SubSeq(raw_data, 4 * i - 3, 4 * i))]]
          [] OTHER -> [st EXCEPT !.err = "Unsupported bit depth"]

\* The `while True` loop of read_wav_simple from chunk k on: it ends at the
\* end of the file or with an exception, never because chunks were found.
RECURSIVE scan_chunks(_, _, _)
scan_chunks(chunks, k, st) ==
    IF st.err # "none" \/ k > Len(chunks) THEN st
    ELSE scan_chunks(chunks, k + 1,
            CASE chunks[k].id = "fmt " ->
                   [st EXCEPT !.num_channels = chunks[k].channels,
                              !.sample_rate = chunks[k].rate,
                              !.bits_per_sample = chunks[k].bits,
                              !.fmt_found = TRUE]
              [] chunks[k].id = "data" -> decode_data(st, chunks[k].raw)
              [] OTHER -> st)

(***************************************************************************)
(* A WAV file as read_wav_simple returns it.  The PCM data of a file is    *)
(* described compactly: `frames` frames of `channels` samples; channel 1   *)
(* holds `base` everywhere except `hot` in frame `pos`, the other channels *)
(* hold `base`.  Amplitudes are in eighths of full scale, so the decoded   *)
(* sample s / 32768.0 (16 bit) or s / 8388608.0 (24 bit) is a / 8.         *)
(***************************************************************************)
PcmOf(w) ==
    [k \in 1..(w.frames * w.channels) |->
        IF (k - 1) \div w.channels + 1 = w.pos /\ (k - 1) % w.channels = 0
        THEN Rat(w.hot, 8) ELSE Rat(w.base, 8)]

read_wav_simple(content) ==
    IF content.kind = "riff"
    THEN LET st == scan_chunks(content.chunks, 1,
                      [fmt_found |-> FALSE, data_found |-> FALSE,
                       sample_rate |-> 0, num_channels |-> 0,
                       bits_per_sample |-> 0, audio_data |-> <<>>,
                       err |-> "none"])
         IN  IF st.err # "none" THEN Err(st.err)
             \* struct.unpack('<I', f.read(4)) on fewer than 4 bytes
             ELSE IF content.tail = "size" THEN Err("struct.error")
             ELSE IF ~st.fmt_found \/ ~st.data_found
             THEN Err("Invalid WAV file structure")
             ELSE [ok |-> TRUE, sample_rate |-> st.sample_rate,
                   num_channels |-> st.num_channels,
                   audio_data |-> st.audio_data]
    ELSE
    IF content.kind # "wav" THEN [ok |-> FALSE, err |-> "Not a WAV file"]
    ELSE IF content.bits \notin {16, 24, 32}
    THEN [ok |-> FALSE, err |-> "Unsupported bit depth"]
    ELSE [ok |-> TRUE, sample_rate |-> content.rate,
          num_channels |-> content.channels, audio_data |-> PcmOf(content)]

\* sum(raw_samples[i:i+num_channels]) / num_channels for the frame at i.
RECURSIVE FrameSum(_, _, _)
FrameSum(raw, lo, hi) ==
    IF lo > hi THEN RZero ELSE RAdd(raw[lo], FrameSum(raw, lo + 1, hi))

\* load_ir without scipy (HAS_SCIPY = False).
load_ir(content) ==
    LET wav == read_wav_simple(content)
    IN  IF ~wav.ok THEN wav
        ELSE IF wav.num_channels = 0 \/ wav.sample_rate = 0
        THEN [ok |-> FALSE, err |-> "ZeroDivisionError"]
        ELSE LET raw == wav.audio_data
                 ch  == wav.num_channels
                 mono == IF ch > 1
                         THEN [f \in 1..((Len(raw) + ch - 1) \div ch) |->
                                 RDiv(FrameSum(raw, (f - 1) * ch + 1,
                                               Min(f * ch, Len(raw))),
                                      <<ch, 1>>)]
                         ELSE raw
             IN  [ok |-> TRUE,
                  samples |-> IF wav.sample_rate # TARGET_SAMPLE_RATE
                              THEN simple_resample(mono, wav.sample_rate,
                                                   TARGET_SAMPLE_RATE)
                              ELSE mono,
                  original_sample_rate |-> wav.sample_rate,
                  original_channels |-> ch,
                  original_length |-> Len(raw) \div ch]

(***************************************************************************)
(* File names.  A name is [stem, ext]; the stem is a sequence of           *)
(* characters.  sanitize_name works on the stem, character by character.   *)
(***************************************************************************)
IdentChars == {"a", "b", "Z", "_", "0", "1", "9"}

DigitChars == {"0", "1", "9"}

\* sanitize_name without the test of the first character.
sanitize_name_unprefixed(name) ==
    LET subbed == [i \in DOMAIN name.stem |->
                     IF name.stem[i] \in IdentChars THEN name.stem[i] ELSE "_"]
    IN  IF Len(subbed) = 0 THEN [ok |-> FALSE, err |-> "IndexError"]
        ELSE [ok |-> TRUE, id |-> subbed]

\* sanitize_name; name[0] of an empty stem raises IndexError.
sanitize_name(name) ==
    LET subbed == [i \in DOMAIN name.stem |->
                     IF name.stem[i] \in IdentChars THEN name.stem[i] ELSE "_"]
    IN  IF Len(subbed) = 0 THEN [ok |-> FALSE, err |-> "IndexError"]
        ELSE [ok |-> TRUE,
              id |-> IF subbed[1] \in DigitChars THEN <<"_">> \o subbed
                     ELSE subbed]

\* Path(input_path).stem.replace('_', ' ').replace('-', ' ')
DisplayName(name) ==
    [i \in DOMAIN name.stem |->
        IF name.stem[i] \in {"_", "-"} THEN " " ELSE name.stem[i]]

(***************************************************************************)
(* Fixed-point text.  A token is the text of one value with 8 decimals and *)
(* the suffix f: [neg, whole, frac8], read  -?whole.frac8  with frac8 in   *)
(* units of 10^-8; `plus` tells whether a non-negative value carries '+'.  *)
(***************************************************************************)
E8 == 100000000

\* The next k decimal digits of r / d (0 <= r < d), as a number, and the
\* remainder.
RECURSIVE DecDigits(_, _, _)
DecDigits(r, d, k) ==
    IF k = 0 THEN [q |-> 0, rem |-> r]
    ELSE LET head == DecDigits(r, d, k - 1)
             x    == head.rem * 10
         IN  [q |-> head.q * 10 + x \div d, rem |-> x % d]

\* f"{v:+.8f}f" of a rational v (round half to even on the exact value).
FormatSigned8(v) ==
    LET a     == RAbs(v)
        whole == a[1] \div a[2]
        dd    == DecDigits(a[1] % a[2], a[2], 8)
        up    == 2 * dd.rem > a[2] \/ (2 * dd.rem = a[2] /\ dd.q % 2 = 1)
        units == dd.q + (IF up THEN 1 ELSE 0)
    IN  [neg |-> v[1] < 0, plus |-> TRUE,
         whole |-> whole + units \div E8, frac8 |-> units % E8]

\* f"{v:.8f}f" of a weight v = whole.nano.  The ninth decimal decides the
\* rounding (the weights drawn below have no ninth digit 5, so the double
\* nearest to the literal rounds as the literal does).
Format8(v) ==
    LET units == v.nano \div 10 + (IF v.nano % 10 >= 5 THEN 1 ELSE 0)
    IN  [neg |-> v.neg, plus |-> FALSE,
         whole |-> v.whole + units \div E8, frac8 |-> units % E8]

(***************************************************************************)
(* float32.  A float32 is [neg, e, m]: value m * 2^(e - 23) with           *)
(* 2^23 <= m < 2^24, or m = 0 for zero.  A decimal with p decimals is      *)
(* whole + f / 10^p = (whole * 2^p + f / 5^p) * 2^-p, which F32Of rounds   *)
(* to nearest, ties to even (whole < 2^21, p <= 9).                        *)
(***************************************************************************)
F32Bits == 24

\* 5^9 and 5^8
Five9 == 1953125

Five8 == 390625

\* floor(r * 2^k / den) and whether the division left a remainder, for
\* 0 <= r < den < 2^21, ten bits at a time.
RECURSIVE LongDiv(_, _, _)
LongDiv(r, den, k) ==
    IF k = 0 THEN [q |-> 0, rem |-> r]
    ELSE LET step == Min(k, 10)
             t    == r * Pow2(step)
             rest == LongDiv(t % den, den, k - step)
         IN  [q |-> (t \div den) * Pow2(k - step) + rest.q, rem |-> rest.rem]

\* (i + r / den) * 2^more truncated to an integer (more may be negative),
\* and whether the truncation dropped anything.
F32Widen(i, r, den, more) ==
    IF more >= 0
    THEN LET frac == LongDiv(r, den, more)
         IN  [wide |-> i * Pow2(more) + frac.q, sticky |-> frac.rem # 0]
    ELSE [wide |-> i \div Pow2(-more),
          sticky |-> i % Pow2(-more) # 0 \/ r # 0]

\* w.wide / 2 rounded to nearest, ties to even.
F32Nearest(w) ==
    LET keep == w.wide \div 2
    IN  IF w.wide % 2 = 1 /\ (w.sticky \/ keep % 2 = 1) THEN keep + 1
        ELSE keep

\* The float32 of mantissa m (2^23 <= m <= 2^24) and exponent e.
F32Pack(neg, e, m) ==
    IF m = Pow2(F32Bits) THEN [neg |-> neg, e |-> e + 1, m |-> m \div 2]
    ELSE [neg |-> neg, e |-> e, m |-> m]

\* The float32 nearest to (i + r / den) * 2^x, for i >= 1 and 0 <= r < den:
\* the leading bit of i weighs 2^ShiftUp(i, 1), and 24 bits below it are
\* kept, one of them to round.
F32Round(neg, i, r, den, x) ==
    F32Pack(neg, ShiftUp(i, 1) + x,
            F32Nearest(F32Widen(i, r, den, F32Bits - ShiftUp(i, 1))))

F32Of(neg, whole, f, p, five) ==
    IF whole = 0 /\ f = 0 THEN [neg |-> neg, e |-> 0, m |-> 0]
    ELSE LET i == whole * Pow2(p) + f \div five
             r == f % five
         IN  IF i >= 1 THEN F32Round(neg, i, r, five, -p)
             ELSE LET z == ShiftDown(r, five)
                  IN  F32Round(neg, 1, r * Pow2(z) - five, five, -p - z)

\* np.float32 of a JSON weight, and of a token read back by float().
F32OfNum(v) == F32Of(v.neg, v.whole, v.nano, 9, Five9)

F32OfToken(t) == F32Of(t.neg, t.whole, t.frac8, 8, Five8)

\* The float32 NaN (exponent all ones, the quiet bit set).
F32NaN == [neg |-> FALSE, e |-> 128, m |-> 12582912]

F32IsNaN(a) == a.e = 128 /\ a.m # 8388608

\* Whether np.array(..., dtype=np.float32) can convert a leaf: numbers,
\* booleans, None and the strings float() reads convert; other strings
\* raise ValueError and objects TypeError.
F32Converts(v) ==
    \/ v.t \in {"num", "bool", "null"}
    \/ v.t = "str" /\ v.numeric

\* The float32 a convertible leaf becomes: True is 1.0, False 0.0, None NaN.
F32OfLeaf(v) ==
    CASE v.t = "num"  -> F32OfNum(v)
      [] v.t = "str"  -> F32OfNum(v.num)
      [] v.t = "bool" -> IF v.b THEN [neg |-> FALSE, e |-> 0, m |-> 8388608]
                         ELSE [neg |-> FALSE, e |-> 0, m |-> 0]
      [] OTHER        -> F32NaN

\* tolerance = 1e-6 as numpy compares it with a float32 difference: the
\* float32 nearest to 1e-6 is 8796093 * 2^-43.  The rounded difference
\* exceeds it exactly when the exact difference reaches the midpoint
\* (2 * 8796093 + 1) * 2^-44 above it.
TolMid44 == 17592187

\* diff > tolerance for two non-zero float32 whose exponents are more than 6
\* apart: the larger one decides, except when it lies in [2^-20, 2^-19),
\* where the difference is compared in units of 2^-44.
F32FarExceeds(a, b) ==
    LET big   == IF a.e > b.e THEN a ELSE b
        small == IF a.e > b.e THEN b ELSE a
        sh    == -small.e - 21
        floor == IF sh > 30 THEN 0 ELSE small.m \div Pow2(sh)
        ceil  == IF sh <= 30 /\ small.m % Pow2(sh) = 0 THEN floor
                 ELSE floor + 1
    IN  IF big.e >= -19 THEN TRUE
        ELSE IF big.e <= -21 THEN FALSE
        ELSE IF big.neg = small.neg THEN 2 * big.m - TolMid44 >= ceil
        ELSE floor >= TolMid44 - 2 * big.m

\* diff > tolerance for diff = |a - b| in float32.  For exponents at most 6
\* apart (or a zero operand) D is the exact difference in units of
\* 2^(u - 23), u the smaller exponent.
F32DiffExceeds(a, b) ==
    IF F32IsNaN(a) \/ F32IsNaN(b) THEN FALSE      \* nan > tolerance is False
    ELSE IF a.m # 0 /\ b.m # 0 /\ Abs(a.e - b.e) > 6 THEN F32FarExceeds(a, b)
    ELSE
    LET za == a.m = 0
        zb == b.m = 0
        u  == IF za THEN b.e ELSE IF zb THEN a.e ELSE Min(a.e, b.e)
        sa == (IF a.neg THEN -1 ELSE 1) * a.m * (IF za THEN 1 ELSE Pow2(a.e - u))
        sb == (IF b.neg THEN -1 ELSE 1) * b.m * (IF zb THEN 1 ELSE Pow2(b.e - u))
        D  == Abs(sa - sb)
        k  == u - 23 + 44      \* D * 2^k >= TolMid44 ?
    IN  IF k >= 0
        THEN (IF k >= 25 THEN D >= 1
              ELSE D >= (TolMid44 + Pow2(k) - 1) \div Pow2(k))
        ELSE (IF -k >= 7 THEN FALSE
              ELSE D >= TolMid44 * Pow2(-k))

(***************************************************************************)
(* JSON values.  A nested weight array is a tree: [t |-> "list", items]    *)
(* or a number [t |-> "num", neg, whole, nano] (the literal whole.nano).   *)
(***************************************************************************)
Num(neg, whole, nano) ==
    [t |-> "num", neg |-> neg, whole |-> whole, nano |-> nano]

List(items) == [t |-> "list", items |-> items]

\* The JSON values that are neither lists nor numbers: a string (numeric
\* tells whether float() can read it, and then num is what it reads), null,
\* a boolean, an object.
Str(numeric, num) == [t |-> "str", numeric |-> numeric, num |-> num]

Null == [t |-> "null"]

Bool(b) == [t |-> "bool", b |-> b]

Obj == [t |-> "obj"]

\* The concatenation of parts[lo..hi].
RECURSIVE ConcatRange(_, _, _)
ConcatRange(parts, lo, hi) ==
    IF lo > hi THEN <<>>
    ELSE IF lo = hi THEN parts[lo]
    ELSE LET mid == (lo + hi) \div 2
         IN  ConcatRange(parts, lo, mid) \o ConcatRange(parts, mid + 1, hi)

\* flatten_weights that extends the result by a nested list itself instead
\* of by its flattening.
flatten_weights_shallow(weights) ==
    LET parts == [i \in DOMAIN weights.items |->
                    IF weights.items[i].t = "list"
                    THEN weights.items[i].items
                    ELSE <<weights.items[i]>>]
    IN  ConcatRange(parts, 1, Len(parts))

\* flatten_weights of convert_aidax_to_cpp.py, for a list `weights`: each
\* item is flattened if it is a list and appended as it is otherwise.
RECURSIVE flatten_weights(_)
flatten_weights(weights) ==
    LET parts == [i \in DOMAIN weights.items |->
                    IF weights.items[i].t = "list"
                    THEN flatten_weights(weights.items[i])
                    ELSE <<weights.items[i]>>]
    IN  ConcatRange(parts, 1, Len(parts))

\* str.lower() on the layer types that occur.
Lower(s) ==
    CASE s = "LSTM"  -> "lstm"
      [] s = "GRU"   -> "gru"
      [] s = "Dense" -> "dense"
      [] OTHER       -> s

\* An AIDA-X document is described by how it departs from a well-formed
\* LSTM-12 model: the type of layer 0 and its hidden size, the number of
\* layers, the type of layer 1, the numbers of weight tensors of the two
\* layers, the deviations dk, dr, db of the kernel, recurrent and bias
\* lengths, and a weight `hot` put first in the kernel (nano = 0: none).
Doc(arch, hidden, nl, t1, nrnn, nd, dk, dr, db, hot) ==
    [arch |-> arch, hidden |-> hidden, nl |-> nl, t1 |-> t1, nrnn |-> nrnn,
     nd |-> nd, dk |-> dk, dr |-> dr, db |-> db, hot |-> hot]

NoHot == Num(FALSE, 0, 0)

\* 16.000000954: its 8-decimal text is 16.00000095.
BigHot == Num(FALSE, 16, 954)

\* -0.731234567
SmallHot == Num(TRUE, 0, 731234567)

\* The weight at index i (from 0) of tensor number tn of a document.
WeightAt(d, tn, i) ==
    IF tn = 1 /\ i = 0 /\ d.hot.nano # 0 THEN d.hot
    ELSE Num((tn + i) % 2 = 1, 0, tn * 100000000 + i * 1000 + 123)

\* json.load on the text of a described document: the document
\* [named, name, layers], a layer being [type, shape, weights].
JsonLoad(d) ==
    LET gates == IF Lower(d.arch) = "gru" THEN 3 ELSE 4
        width == gates * d.hidden
        kernel == List(<< List([i \in 1..(width + d.dk) |->
                                  WeightAt(d, 1, i - 1)]) >>)
        recurrent ==
            List([r \in 1..d.hidden |->
                    List([c \in 1..(width + (IF r = d.hidden THEN d.dr ELSE 0))
                            |-> WeightAt(d, 2, (r - 1) * width + c - 1)])])
        bias == List([i \in 1..(width + d.db) |-> WeightAt(d, 3, i - 1)])
        dense_w == List([i \in 1..d.hidden |->
                           List(<< WeightAt(d, 4, i - 1) >>)])
        dense_b == List(<< WeightAt(d, 5, 0) >>)
        rnn   == [type |-> d.arch,
                  shape |-> IF d.hidden = 0 THEN <<>> ELSE <<1, d.hidden>>,
                  weights |-> SubSeq(<<kernel, recurrent, bias, bias>>,
                                     1, d.nrnn)]
        dense == [type |-> d.t1, shape |-> <<1>>,
                  weights |-> SubSeq(<<dense_w, dense_b, dense_b>>, 1, d.nd)]
    IN  [named |-> d.hot.nano = 0,   \* metadata.name comes with plain weights
         name |-> <<"a", "m", "p">>,
         layers |-> SubSeq(<<rnn, dense, dense>>, 1, d.nl)]

\* parse_model once json.load has returned `data`.
parse_model_data(path, data) ==
    LET name   == IF data.named THEN data.name ELSE path.stem
        layers == data.layers
    IN  IF Len(layers) < 2 THEN Err("Expected at least 2 layers")
        ELSE
        LET rnn_layer     == layers[1]
            rnn_type      == Lower(rnn_layer.type)
            rnn_shape     == rnn_layer.shape
            hidden_size   == IF rnn_shape # <<>> THEN rnn_shape[Len(rnn_shape)]
                             ELSE 0
            dense_layer   == layers[2]
            rnn_weights   == rnn_layer.weights
            dense_weights == dense_layer.weights
        IN  IF rnn_type \notin {"lstm", "gru"}
            THEN Err("First layer must be LSTM or GRU")
            ELSE IF Lower(dense_layer.type) # "dense"
            THEN Err("Second layer must be Dense")
            ELSE IF Len(rnn_weights) < 3
            THEN Err("Expected 3 RNN weight arrays")
            ELSE IF \E i \in 1..3 : rnn_weights[i].t # "list"
            THEN Err("TypeError")
            ELSE IF Len(dense_weights) < 2
            THEN Err("IndexError")
            ELSE IF \E i \in 1..2 : dense_weights[i].t # "list"
            THEN Err("TypeError")
            ELSE
            LET kernel    == flatten_weights(rnn_weights[1])
                recurrent == flatten_weights(rnn_weights[2])
                bias      == flatten_weights(rnn_weights[3])
                dense_w   == flatten_weights(dense_weights[1])
                dense_b   == flatten_weights(dense_weights[2])
                gate_size == IF rnn_type = "lstm" THEN 4 ELSE 3
                expected_kernel_size    == 1 * gate_size * hidden_size
                expected_recurrent_size == hidden_size * gate_size * hidden_size
            IN  IF Len(kernel) # expected_kernel_size
                THEN Err("Kernel size mismatch")
                ELSE IF Len(recurrent) # expected_recurrent_size
                THEN Err("Recurrent size mismatch")
                ELSE [ok |-> TRUE, name |-> name, architecture |-> rnn_type,
                      hidden_size |-> hidden_size,
                      weights |-> [kernel |-> kernel, recurrent |-> recurrent,
                                   bias |-> bias, dense_w |-> dense_w,
                                   dense_b |-> dense_b]]

\* parse_model.  `content` is the file: [kind |-> "json", text] when it
\* parses as JSON.
parse_model(path, content) ==
    IF content.kind # "json" THEN Err("JSONDecodeError")
    ELSE parse_model_data(path, JsonLoad(content.text))

\* validate_model without the check of hidden_size.
validate_model_any_size(model) ==
    IF model.architecture # "lstm"
    THEN [valid |-> FALSE, error |-> "Only LSTM architecture supported"]
    ELSE [valid |-> TRUE, error |-> ""]

\* validate_model: (is_valid, error_message).
validate_model(model) ==
    IF model.architecture # "lstm"
    THEN [valid |-> FALSE, error |-> "Only LSTM architecture supported"]
    ELSE IF model.hidden_size # 12
    THEN [valid |-> FALSE, error |-> "Only hidden_size=12 supported"]
    ELSE [valid |-> TRUE, error |-> ""]

(***************************************************************************)
(* The text artifact.  An array declaration is [name, rows]; a row is      *)
(* [tokens, comma]: its values and whether a comma ends the line.          *)
(***************************************************************************)
\* The rows with a comma after every row, the last one included.
FormatRowsAllCommas(values, width, signed) ==
    [r \in 1..((Len(values) + width - 1) \div width) |->
        LET i == (r - 1) * width
        IN  [tokens |-> [k \in 1..Min(width, Len(values) - i) |->
                           IF signed THEN FormatSigned8(values[i + k])
                           ELSE Format8(values[i + k])],
             comma  |-> TRUE]]

\* The rows of format_array: `width` values per line, each with its sign
\* ({v:+.8f}, for sample values) or without ({v:.8f}, for weights).
FormatRows(values, width, signed) ==
    [r \in 1..((Len(values) + width - 1) \div width) |->
        LET i == (r - 1) * width        \* the code's loop variable
        IN  [tokens |-> [k \in 1..Min(width, Len(values) - i) |->
                           IF signed THEN FormatSigned8(values[i + k])
                           ELSE Format8(values[i + k])],
             comma  |-> i + width < Len(values)]]

\* format_array of convert_aidax_to_cpp.py: 8 per line, f"{v:.8f}f".
format_array(values, name) ==
    [name |-> name, rows |-> FormatRows(values, 8, FALSE)]

\* format_array of convert_ir_to_cpp.py: 6 per line, f"{v:+.8f}f".
format_array_ir(values, name) ==
    [name |-> name, rows |-> FormatRows(values, 6, TRUE)]

\* format_weights_array of convert_nam_weights.py: 8 per line, f"{w:.8f}f",
\* and the line declaring <name>Count after the array.
format_weights_array(weights, name) ==
    [name |-> name, rows |-> FormatRows(weights, 8, FALSE), count |-> TRUE]

\* str.upper() on the architectures parse_model returns.
Upper(s) ==
    CASE s = "lstm" -> "LSTM"
      [] s = "gru"  -> "GRU"
      [] OTHER      -> s

\* generate_header of convert_aidax_to_cpp.py.
generate_header(model, identifier) ==
    [kind |-> "model", identifier |-> identifier, kName |-> model.name,
     kArchitecture |-> Upper(model.architecture),
     kHiddenSize |-> model.hidden_size,
     arrays |-> << format_array(model.weights.kernel, "kKernel"),
                   format_array(model.weights.recurrent, "kRecurrent"),
                   format_array(model.weights.bias, "kBias"),
                   format_array(model.weights.dense_w, "kDenseW"),
                   format_array(model.weights.dense_b, "kDenseB") >>]

\* generate_header of convert_ir_to_cpp.py.
\* `original` is (original_rate, original_channels, original_length).
generate_header_ir(samples, identifier, display_name, original) ==
    [kind |-> "ir", identifier |-> identifier, kName |-> display_name,
     kSampleRate |-> TARGET_SAMPLE_RATE, kLength |-> Len(samples),
     original |-> original,
     arrays |-> << format_array_ir(samples, "kSamples") >>]

(***************************************************************************)
(* convert_file of both tools.  The result records what the call did:      *)
(* ok is the value returned, written whether the output file was written.  *)
(* Every exception raised inside is caught (except Exception) and turned   *)
(* into False.                                                             *)
(***************************************************************************)
Failed(e) == [ok |-> FALSE, written |-> FALSE, err |-> e]

\* convert_file of convert_ir_to_cpp.py once load_ir has returned or raised.
convert_loaded(input_path, loaded, can_write) ==
        IF ~loaded.ok THEN Failed(loaded.err)
        ELSE
        LET normalized == normalize_ir(loaded.samples)
        IN  IF ~normalized.ok THEN Failed(normalized.err)
            ELSE
            LET samples    == truncate_ir(normalized.samples, MAX_IR_LENGTH)
                identifier == sanitize_name(input_path)
            IN  IF ~identifier.ok THEN Failed(identifier.err)
                ELSE IF ~can_write THEN Failed("OSError")
                ELSE [ok |-> TRUE, written |-> TRUE,
                      identifier |-> identifier.id,
                      samples |-> samples,
                      peak |-> normalized.peak,
                      loaded_length |-> Len(loaded.samples),
                      header |-> generate_header_ir(samples, identifier.id,
                                    DisplayName(input_path),
                                    << loaded.original_sample_rate,
                                       loaded.original_channels,
                                       loaded.original_length >>)]

\* convert_file of convert_ir_to_cpp.py.
convert_file_ir(input_path, content, can_write) ==
    convert_loaded(input_path, load_ir(content), can_write)

\* convert_file of convert_aidax_to_cpp.py once parse_model has returned or
\* raised.
convert_parsed(input_path, model, can_write) ==
        IF ~model.ok THEN Failed(model.err)
        ELSE
        LET v == validate_model(model)
        IN  IF ~v.valid
            THEN [ok |-> FALSE, written |-> FALSE, err |-> v.error,
                  model |-> model]
            ELSE
            LET identifier == sanitize_name(input_path)
            IN  IF ~identifier.ok THEN Failed(identifier.err)
                ELSE IF ~can_write THEN Failed("OSError")
                ELSE [ok |-> TRUE, written |-> TRUE,
                      identifier |-> identifier.id,
                      model |-> model,
                      header |-> generate_header(model, identifier.id)]

\* convert_file of convert_aidax_to_cpp.py.
convert_file(input_path, content, can_write) ==
    convert_parsed(input_path, parse_model(input_path, content), can_write)

(***************************************************************************)
(* Directory listing.                                                      *)
(***************************************************************************)
\* The characters of a suffix.
ExtChars(ext) ==
    CASE ext = "wav"  -> <<"w", "a", "v">>
      [] ext = "WAV"  -> <<"W", "A", "V">>
      [] ext = "json" -> <<"j", "s", "o", "n">>
      [] OTHER        -> <<"t", "x", "t">>

\* The code point of a character of a file name.
Ord(c) ==
    CASE c = "-" -> 45 [] c = "." -> 46 [] c = "0" -> 48 [] c = "1" -> 49
      [] c = "9" -> 57 [] c = "@" -> 64 [] c = "A" -> 65 [] c = "V" -> 86
      [] c = "W" -> 87 [] c = "Z" -> 90 [] c = "[" -> 91 [] c = "_" -> 95
      [] c = "a" -> 97 [] c = "b" -> 98
      [] c = "j" -> 106 [] c = "n" -> 110 [] c = "o" -> 111
      [] c = "s" -> 115 [] c = "t" -> 116 [] c = "v" -> 118
      [] c = "w" -> 119 [] c = "x" -> 120 [] OTHER -> 32

PathChars(name) == name.stem \o <<".">> \o ExtChars(name.ext)

\* a < b for two paths of one directory (string order).
PathLess(a, b) ==
    LET x == PathChars(a)
        y == PathChars(b)
    IN  \E i \in 1..(Len(y)) :
            /\ \A k \in 1..(i - 1) : k <= Len(x) /\ x[k] = y[k]
            /\ \/ i > Len(x)
               \/ Ord(x[i]) < Ord(y[i])

\* sorted(files): the files of the set S in path order.
Sorted(S) ==
    CHOOSE q \in [1..Cardinality(S) -> S] :
        \A i, j \in 1..Cardinality(S) :
            i < j => PathLess(q[i].name, q[j].name)

\* input_dir.glob(pattern) for the patterns the tools use, on a file
\* system with case-sensitive names.
Glob(files, exts) == {f \in files : f.name.ext \in exts}

\* The files main() collects in batch mode: '*.wav' + '*.WAV', or '*.json'.
Collected(t, files) ==
    IF t = "ir" THEN Glob(files, {"wav"}) \cup Glob(files, {"WAV"})
    ELSE Glob(files, {"json"})

\* convert_file of the running tool.
ConvertFile(t, f, can_write) ==
    IF t = "ir" THEN convert_file_ir(f.name, f.content, can_write)
    ELSE convert_file(f.name, f.content, can_write)

(***************************************************************************)
(* The inputs.  A WAV file is described by its format and its samples: all *)
(* samples have amplitude base/8 except the first channel of frame pos,    *)
(* which has hot/8.  The peak amplitudes are powers of two and the rates   *)
(* 24000, 48000 and 96000, so that every float operation of the pipeline   *)
(* is exact on them.                                                       *)
(***************************************************************************)
Wav(rate, channels, bits, frames, pos, base, hot) ==
    [kind |-> "wav", rate |-> rate, channels |-> channels, bits |-> bits,
     frames |-> frames, pos |-> pos, base |-> base, hot |-> hot]

Garbage == [kind |-> "garbage"]

\* How far past MAX_IR_LENGTH the long impulse responses reach.
Excess == 2

IRCat ==
    { Wav(48000, 1, 16, 3, 2, 1, 4),                  \* short
      Wav(48000, 1, 16, 3, 2, 0, 0),                  \* silent
      Wav(48000, 1, 16, 0, 0, 0, 0),                  \* no samples
      Wav(48000, 1, 24, 3, 3, 1, -8),                 \* negative peak
      Wav(48000, 1, 16, MAX_IR_LENGTH + Excess, 1, 1, 4),      \* peak first
      Wav(48000, 1, 32, MAX_IR_LENGTH + Excess, MAX_IR_LENGTH - 40, 1, 8),
      Wav(24000, 1, 16, MAX_IR_LENGTH \div 2 + Excess,
                        MAX_IR_LENGTH \div 2 + Excess, 1, 4),  \* peak last
      Wav(96000, 2, 16, 6, 3, 1, -8),                 \* stereo, downsampled
      Wav(48000, 1, 8, 3, 2, 1, 4),                   \* unsupported depth
      Wav(48000, 0, 16, 3, 2, 1, 4),                  \* fmt with 0 channels
      Garbage }

DocDescs ==
    { Doc("lstm", 12, 2, "dense", 3, 2, 0, 0, 0, NoHot),
      Doc("LSTM", 12, 2, "Dense", 3, 2, 0, 0, 0, SmallHot),
      Doc("lstm", 12, 2, "dense", 3, 2, 0, 0, 0, BigHot),
      Doc("gru",  12, 2, "dense", 3, 2, 0, 0, 0, NoHot),
      Doc("lstm", 2,  2, "dense", 3, 2, 0, 0, 0, NoHot),
      Doc("gru",  2,  2, "dense", 3, 2, 0, 0, -1, NoHot),
      Doc("lstm", 0,  2, "dense", 3, 2, 0, 0, 0, NoHot),
      Doc("conv", 12, 2, "dense", 3, 2, 0, 0, 0, NoHot),
      Doc("lstm", 12, 1, "dense", 3, 2, 0, 0, 0, NoHot),
      Doc("lstm", 12, 3, "dense", 3, 2, 0, 0, 0, NoHot),
      Doc("lstm", 12, 2, "lstm",  3, 2, 0, 0, 0, NoHot),
      Doc("lstm", 12, 2, "dense", 2, 2, 0, 0, 0, NoHot),
      Doc("lstm", 12, 2, "dense", 4, 2, 0, 0, 0, NoHot),
      Doc("lstm", 12, 2, "dense", 3, 1, 0, 0, 0, NoHot),
      Doc("lstm", 12, 2, "dense", 3, 3, 0, 0, 0, NoHot),
      Doc("lstm", 12, 2, "dense", 3, 2, 1, 0, 0, NoHot),
      Doc("lstm", 12, 2, "dense", 3, 2, 0, -1, 0, NoHot),
      Doc("lstm", 12, 2, "dense", 3, 2, 0, 0, -1, NoHot),
      Doc("lstm", 12, 2, "dense", 3, 2, 0, 0, 1, NoHot) }

DocCat == {[kind |-> "json", text |-> d] : d \in DocDescs} \cup {Garbage}

\* The inputs that are cheap to convert.
Light(c) ==
    \/ c.kind = "garbage"
    \/ c.kind = "wav" /\ c.frames <= 6
    \/ c.kind = "json" /\ c.text.hidden <= 2

\* The most files a directory holds.
MaxFiles == 2

Name(stem, ext) == [stem |-> stem, ext |-> ext]

\* The names files can have, per tool; the stems 1- and 1_ sanitize to the
\* same identifier.
NamesOf(t) ==
    IF t = "ir"
    THEN {Name(<<"a">>, "wav"), Name(<<"1", "-">>, "WAV"),
          Name(<<"1", "_">>, "wav"), Name(<<"a">>, "txt")}
    ELSE {Name(<<"a">>, "json"), Name(<<"1", "-">>, "json"),
          Name(<<"1", "_">>, "json"), Name(<<"a">>, "txt")}

\* The files that can exist: notes (.txt) hold no audio and no model, and
\* only the file named a holds the inputs that are long to convert.
FilesOf(t) ==
    UNION {{[name |-> n, content |-> c] :
               c \in {x \in (IF t = "ir" THEN IRCat ELSE DocCat) :
                         /\ n.ext = "txt" => x = Garbage
                         /\ n.stem # <<"a">> => Light(x)}} :
           n \in NamesOf(t)}

\* The directories of at most k files, no two of one name.
RECURSIVE DirsUpTo(_, _)
DirsUpTo(t, k) ==
    IF k = 0 THEN {{}}
    ELSE LET smaller == DirsUpTo(t, k - 1)
         IN  smaller \cup
             {S \cup {f} : S \in smaller, f \in FilesOf(t)}

SameName(S) == \E f, g \in S : f # g /\ f.name = g.name

DirsOf(t) == {S \in DirsUpTo(t, MaxFiles) : ~SameName(S)}

\* What args.input can name.
InputsOf(t) ==
    {[kind |-> "dir", files |-> S] : S \in DirsOf(t)}
    \cup {[kind |-> "file", file |-> f] : f \in FilesOf(t)}
    \cup {[kind |-> "missing"]}

(***************************************************************************)
(* main() of the two converters.                                           *)
(***************************************************************************)
Idle == <<>>

Init ==
    /\ tool \in {"ir", "aidax"}
    /\ batch \in BOOLEAN
    /\ input \in InputsOf(tool)
    /\ writable \in BOOLEAN
    /\ pc = "start"
    /\ todo = <<>>
    /\ nfiles = 0
    /\ success = 0
    /\ calls = <<>>
    /\ out = <<>>
    /\ last = [ok |-> FALSE, written |-> FALSE, err |-> "none"]
    /\ exitCode = -1
    /\ fin = Idle
    /\ fout = Idle

\* sys.exit(code), or main() returning (code 0).
Exit(code) ==
    /\ pc' = "exit"
    /\ exitCode' = code

\* --batch, and the input is not a directory.
BatchNotDir ==
    /\ pc = "start" /\ batch /\ input.kind # "dir"
    /\ Exit(1)
    /\ UNCHANGED <<tool, batch, input, writable, todo, nfiles, success,
                   calls, out, last, fin, fout>>

\* --batch, and no file of the directory matches.
BatchEmpty ==
    /\ pc = "start" /\ batch /\ input.kind = "dir"
    /\ Collected(tool, input.files) = {}
    /\ Exit(1)
    /\ UNCHANGED <<tool, batch, input, writable, todo, nfiles, success,
                   calls, out, last, fin, fout>>

\* --batch: the files are collected and sorted, the counter starts at 0.
BatchStart ==
    /\ pc = "start" /\ batch /\ input.kind = "dir"
    /\ Collected(tool, input.files) # {}
    /\ todo' = Sorted(Collected(tool, input.files))
    /\ nfiles' = Cardinality(Collected(tool, input.files))
    /\ success' = 0
    /\ pc' = "loop"
    /\ UNCHANGED <<tool, batch, input, writable, calls, out, last, exitCode,
                   fin, fout>>

\* The effect of one convert_file call on the log and the output directory.
Converted(f, r) ==
    /\ last' = r
    /\ calls' = Append(calls, [name |-> f.name, ok |-> r.ok])
    /\ out' = IF r.written
              THEN [x \in DOMAIN out \cup {r.identifier} |->
                      IF x = r.identifier THEN r.header ELSE out[x]]
              ELSE out

\* An iteration of the batch loop that lets a failure end the loop.
ConvertNextAborts ==
    /\ pc = "loop" /\ todo # <<>>
    /\ \E r \in {ConvertFile(tool, Head(todo), writable)} :
           /\ Converted(Head(todo), r)
           /\ success' = IF r.ok THEN success + 1 ELSE success
           /\ todo' = IF r.ok THEN Tail(todo) ELSE <<>>
    /\ UNCHANGED <<tool, batch, input, writable, pc, nfiles, exitCode,
                   fin, fout>>

\* One iteration of the batch loop.
ConvertNext ==
    /\ pc = "loop" /\ todo # <<>>
    /\ \E r \in {ConvertFile(tool, Head(todo), writable)} :
           /\ Converted(Head(todo), r)
           /\ success' = IF r.ok THEN success + 1 ELSE success
    /\ todo' = Tail(todo)
    /\ UNCHANGED <<tool, batch, input, writable, pc, nfiles, exitCode,
                   fin, fout>>

\* The loop is over: the summary is printed and main() returns.
BatchEnd ==
    /\ pc = "loop" /\ todo = <<>>
    /\ Exit(0)
    /\ UNCHANGED <<tool, batch, input, writable, todo, nfiles, success,
                   calls, out, last, fin, fout>>

\* No --batch, and the input is not a file.
SingleNotFile ==
    /\ pc = "start" /\ ~batch /\ input.kind # "file"
    /\ Exit(1)
    /\ UNCHANGED <<tool, batch, input, writable, todo, nfiles, success,
                   calls, out, last, fin, fout>>

\* No --batch: the one file is converted.
SingleConvert ==
    /\ pc = "start" /\ ~batch /\ input.kind = "file"
    /\ \E r \in {ConvertFile(tool, input.file, writable)} :
           /\ Converted(input.file, r)
           /\ Exit(IF r.ok THEN 0 ELSE 1)
    /\ UNCHANGED <<tool, batch, input, writable, todo, nfiles, success,
                   fin, fout>>

Next ==
    \/ BatchNotDir
    \/ BatchEmpty
    \/ BatchStart
    \/ ConvertNext
    \/ BatchEnd
    \/ SingleNotFile
    \/ SingleConvert

Spec == Init /\ [][Next]_vars

(***************************************************************************)
(* verify_conversion.py.  Arrays are sequences of float32 values.          *)
(***************************************************************************)
\* flatten_weights of verify_conversion.py, before the conversion to an
\* array: a value that is not a list is a leaf.
RECURSIVE flatten_leaves(_)
flatten_leaves(item) ==
    IF item.t = "list"
    THEN LET parts == [i \in DOMAIN item.items |-> flatten_leaves(item.items[i])]
         IN  ConcatRange(parts, 1, Len(parts))
    ELSE <<item>>

\* np.array(result, dtype=np.float32): the array, or the exception of the
\* first leaf that does not convert.
np_array_f32(result) ==
    IF \A i \in DOMAIN result : F32Converts(result[i])
    THEN [ok |-> TRUE, arr |-> [i \in DOMAIN result |-> F32OfLeaf(result[i])]]
    ELSE LET bad == CHOOSE i \in DOMAIN result :
                       /\ ~F32Converts(result[i])
                       /\ \A j \in 1..(i - 1) : F32Converts(result[j])
         IN  Err(IF result[bad].t = "str" THEN "ValueError" ELSE "TypeError")

\* flatten_weights of verify_conversion.py: [ok, arr], or the exception.
flatten_weights_f32(weights) == np_array_f32(flatten_leaves(weights))

\* The dict parse_json_model returns, its five values evaluated in order.
parse_json_tensors(kernel, recurrent, bias, dense_w, dense_b) ==
    CASE ~kernel.ok    -> kernel
      [] ~recurrent.ok -> recurrent
      [] ~bias.ok      -> bias
      [] ~dense_w.ok   -> dense_w
      [] ~dense_b.ok   -> dense_b
      [] OTHER -> [ok |-> TRUE, kernel |-> kernel.arr,
                   recurrent |-> recurrent.arr, bias |-> bias.arr,
                   dense_w |-> dense_w.arr, dense_b |-> dense_b.arr]

\* parse_json_model once json.load has returned `data`.
parse_json_data(data) ==
    LET layers == data.layers
    IN  IF Len(layers) < 2 THEN Err("Expected at least 2 layers")
        ELSE
        LET lstm_layer    == layers[1]
            dense_layer   == layers[2]
            lstm_weights  == lstm_layer.weights
            dense_weights == dense_layer.weights
        IN  IF Lower(lstm_layer.type) \notin {"lstm", "gru"}
            THEN Err("First layer must be LSTM or GRU")
            ELSE IF Len(lstm_weights) < 3 \/ Len(dense_weights) < 2
            THEN Err("IndexError")
            ELSE parse_json_tensors(flatten_weights_f32(lstm_weights[1]),
                                    flatten_weights_f32(lstm_weights[2]),
                                    flatten_weights_f32(lstm_weights[3]),
                                    flatten_weights_f32(dense_weights[1]),
                                    flatten_weights_f32(dense_weights[2]))

\* parse_json_model.
parse_json_model(content) ==
    IF content.kind # "json" THEN Err("JSONDecodeError")
    ELSE parse_json_data(JsonLoad(content.text))

\* Whether the text holds a declaration  constexpr float name[] = {...};
HasArray(header, name) ==
    /\ header.kind # "garbage"
    /\ \E k \in DOMAIN header.arrays : header.arrays[k].name = name

\* extract_array of parse_cpp_header: the numeric tokens of the first
\* declaration of `name`, each read by float() and stored as float32.
extract_array(header, name) ==
    LET first  == CHOOSE k \in DOMAIN header.arrays :
                     /\ header.arrays[k].name = name
                     /\ \A j \in 1..(k - 1) : header.arrays[j].name # name
        rows   == header.arrays[first].rows
        lines  == [r \in DOMAIN rows |-> rows[r].tokens]
        values == ConcatRange(lines, 1, Len(lines))
    IN  [i \in DOMAIN values |-> F32OfToken(values[i])]

CppNames == <<"kKernel", "kRecurrent", "kBias", "kDenseW", "kDenseB">>

\* parse_cpp_header.
parse_cpp_header(header) ==
    IF \E k \in DOMAIN CppNames : ~HasArray(header, CppNames[k])
    THEN Err("Could not find array")
    ELSE [ok |-> TRUE,
          kernel    |-> extract_array(header, "kKernel"),
          recurrent |-> extract_array(header, "kRecurrent"),
          bias      |-> extract_array(header, "kBias"),
          dense_w   |-> extract_array(header, "kDenseW"),
          dense_b   |-> extract_array(header, "kDenseB")]

\* compare_arrays: one size_mismatch record, or a value_mismatch record per
\* index where |json - cpp| > tolerance, in index order.
compare_arrays(name, json_arr, cpp_arr) ==
    IF Len(json_arr) # Len(cpp_arr)
    THEN << [type |-> "size_mismatch", name |-> name,
             json_size |-> Len(json_arr), cpp_size |-> Len(cpp_arr)] >>
    ELSE LET Bad(idx) == F32DiffExceeds(json_arr[idx + 1], cpp_arr[idx + 1])
             indices  == [k \in 1..Len(json_arr) |-> k - 1]
             bad_indices == SelectSeq(indices, Bad)
         IN  [k \in DOMAIN bad_indices |->
                [type |-> "value_mismatch", name |-> name,
                 index |-> bad_indices[k]]]

TensorNames == <<"kernel", "recurrent", "bias", "dense_w", "dense_b">>

\* The tensor `name` of a parsed file.
Tensor(weights, name) ==
    CASE name = "kernel"    -> weights.kernel
      [] name = "recurrent" -> weights.recurrent
      [] name = "bias"      -> weights.bias
      [] name = "dense_w"   -> weights.dense_w
      [] OTHER              -> weights.dense_b

\* One pass of the loop body of verify_conversion over the tensor `name`,
\* whose comparison gave `mismatches`.  st holds the value to return (ret,
\* the code's all_pass), total_mismatches, the records reported and the
\* tensors compared so far.
VerifyStep(st, name, mismatches) ==
    [ret      |-> IF mismatches = <<>> THEN st.ret ELSE FALSE,
     parsed   |-> TRUE,
     total_mismatches |-> st.total_mismatches + Len(mismatches),
     report   |-> st.report \o mismatches,
     compared |-> Append(st.compared, name)]

\* The loop of verify_conversion, were it to break at the first tensor
\* with a mismatch.
RECURSIVE VerifyLoopBreaks(_, _, _, _)
VerifyLoopBreaks(json_weights, cpp_weights, k, st) ==
    IF k > Len(TensorNames) \/ ~st.ret THEN st
    ELSE VerifyLoopBreaks(json_weights, cpp_weights, k + 1,
             VerifyStep(st, TensorNames[k],
                 compare_arrays(TensorNames[k],
                                Tensor(json_weights, TensorNames[k]),
                                Tensor(cpp_weights, TensorNames[k]))))

\* The loop of verify_conversion from tensor number k on.
RECURSIVE VerifyLoop(_, _, _, _)
VerifyLoop(json_weights, cpp_weights, k, st) ==
    IF k > Len(TensorNames) THEN st
    ELSE VerifyLoop(json_weights, cpp_weights, k + 1,
             VerifyStep(st, TensorNames[k],
                 compare_arrays(TensorNames[k],
                                Tensor(json_weights, TensorNames[k]),
                                Tensor(cpp_weights, TensorNames[k]))))

\* verify_conversion once the two files have been parsed, or have failed
\* to.
verify_parsed(json_weights, cpp_weights) ==
    IF ~json_weights.ok \/ ~cpp_weights.ok
    THEN [ret |-> FALSE, parsed |-> FALSE, report |-> <<>>,
          compared |-> <<>>, total_mismatches |-> 0]
    ELSE VerifyLoop(json_weights, cpp_weights, 1,
                    [ret |-> TRUE, parsed |-> TRUE, report |-> <<>>,
                     compared |-> <<>>, total_mismatches |-> 0])

\* verify_conversion; `ret` is the value returned.
verify_conversion(json, header) ==
    verify_parsed(parse_json_model(json), parse_cpp_header(header))

(***************************************************************************)
(* inspect_model_json.py.                                                  *)
(***************************************************************************)
\* flatten_weights of inspect_model_json.py, the same code as the
\* verifier's.
flatten_weights_inspect(weights) == np_array_f32(flatten_leaves(weights))

\* get_shape that does not descend into the first item.
get_shape_flat(weights) ==
    IF weights.t # "list" \/ Len(weights.items) = 0 THEN <<>>
    ELSE <<Len(weights.items)>>

\* get_shape: the lengths met on the way down the first items.
RECURSIVE get_shape(_)
get_shape(weights) ==
    IF weights.t # "list" \/ Len(weights.items) = 0 THEN <<>>
    ELSE IF weights.items[1].t # "list" THEN <<Len(weights.items)>>
    ELSE <<Len(weights.items)>> \o get_shape(weights.items[1])

(***************************************************************************)
(* test_model_inference.py: the reference LSTM and Dense layers.  Numbers  *)
(* are fixed point, an integer count of 1 / Unit.  np.exp and np.tanh have *)
(* no integer form: sigmoid and tanh are the piecewise-linear functions    *)
(* with the same limits, the same value at 0 and the same monotonicity,    *)
(* and float32 rounding is left out.  What a call reads and writes, the    *)
(* gate order and the state updates are those of the code.                 *)
(***************************************************************************)
hidden_size == 12

Unit == 256

\* sigmoid(x): 0 at the far left, 1/2 at 0, 1 at the far right.
sigmoid(x) ==
    IF x <= -2 * Unit THEN 0
    ELSE IF x >= 2 * Unit THEN Unit
    ELSE Unit \div 2 + x \div 4

\* np.tanh(x): -1 at the far left, 0 at 0, 1 at the far right.
tanh(x) == IF x <= -Unit THEN -Unit ELSE IF x >= Unit THEN Unit ELSE x

\* np.dot of two vectors, from index k on.
RECURSIVE Dot(_, _, _)
Dot(u, v, k) ==
    IF k > Len(u) THEN 0 ELSE (u[k] * v[k]) \div Unit + Dot(u, v, k + 1)

\* reset() that zeroes the cell state only when there is none yet.
reset_hidden_only(lstm) ==
    [lstm EXCEPT !.h = [i \in 1..hidden_size |-> 0],
                 !.c = IF lstm.c = <<>> THEN [i \in 1..hidden_size |-> 0]
                       ELSE lstm.c]

\* LSTM.reset: h and c become zero vectors.
reset(lstm) ==
    [lstm EXCEPT !.h = [i \in 1..hidden_size |-> 0],
                 !.c = [i \in 1..hidden_size |-> 0]]

\* LSTM.__init__: W is the kernel, U the recurrent tensor as hidden_size
\* rows of 4 * hidden_size, b the bias; the state is reset.
LSTM(kernel, recurrent, bias) ==
    reset([W |-> kernel,
           U |-> [r \in 1..hidden_size |->
                    SubSeq(recurrent, (r - 1) * 4 * hidden_size + 1,
                           r * 4 * hidden_size)],
           b |-> bias, h |-> <<>>, c |-> <<>>])

\* LSTM.forward for the input x: gates = x @ W + h @ U + b, split in the
\* order i, f, c, o; then c = f * c + i * tanh(gates_c), h = o * tanh(c).
forward(lstm, x) ==
    LET h == hidden_size
        gates == [j \in 1..(4 * h) |->
                    (x * lstm.W[j]) \div Unit
                      + Dot(lstm.h, [r \in 1..h |-> lstm.U[r][j]], 1)
                      + lstm.b[j]]
        c == [k \in 1..h |->
                (sigmoid(gates[h + k]) * lstm.c[k]) \div Unit
                  + (sigmoid(gates[k]) * tanh(gates[2 * h + k])) \div Unit]
    IN  [lstm EXCEPT !.c = c,
                     !.h = [k \in 1..h |->
                              (sigmoid(gates[3 * h + k]) * tanh(c[k]))
                                 \div Unit]]

\* Dense.forward: np.dot(x, W).flatten() + b, one output.
dense_forward(dense, x) == Dot(x, dense.W, 1) + dense.b

\* The models test_model loads: weights that differ from tensor to tensor
\* and from one model to the other.
Models(seed) ==
    [lstm  |-> LSTM([j \in 1..(4 * hidden_size) |->
                       (((7 * j + 3 * seed) % 17) - 8) * 24],
                    [k \in 1..(4 * hidden_size * hidden_size) |->
                       (((5 * k + seed) % 13) - 6) * 12],
                    [j \in 1..(4 * hidden_size) |->
                       (((j + seed) % 5) - 2) * 32]),
     dense |-> [W |-> [r \in 1..hidden_size |-> (((3 * r + seed) % 7) - 3) * 64],
                b |-> 16 * seed]]

(***************************************************************************)
(* The functions on their own: one call of truncate_ir, simple_resample or *)
(* verify_conversion on an input drawn at the start.  main() does not run. *)
(***************************************************************************)
NoMain ==
    /\ tool = "none" /\ batch = FALSE /\ input = [kind |-> "missing"]
    /\ writable = TRUE /\ todo = <<>> /\ nfiles = 0 /\ success = 0
    /\ calls = <<>> /\ out = <<>> /\ exitCode = -1
    /\ last = [ok |-> FALSE, written |-> FALSE, err |-> "none"]

\* The call returns `result`.
Return(result) ==
    /\ pc = "call"
    /\ fout' = result
    /\ pc' = "done"
    /\ UNCHANGED <<tool, batch, input, writable, todo, nfiles, success, calls,
                   out, last, exitCode, fin>>

\* The sample sequence 1/16, 2/16, ... of length n.
Ramp(n) == [k \in 1..n |-> Rat(k, 16)]

\* The longest sequence truncated, and the largest limit.
MaxLen == 27

MaxLimit == 25

InitTruncate ==
    /\ NoMain /\ pc = "call" /\ fout = Idle
    /\ \/ \E n \in 0..MaxLen, N \in 0..MaxLimit :
             fin = [op |-> "truncate", x |-> Ramp(n), N |-> N]
       \/ \E c \in IRCat : fin = [op |-> "convert", content |-> c]

\* After the call fin.x is the list passed as the call has left it.
Truncate ==
    /\ fin.op = "truncate" /\ pc = "call"
    /\ \E heap \in {truncate_ir_heap(fin.x, fin.N)} :
          /\ fout' = heap.result
          /\ fin' = [fin EXCEPT !.x = heap.samples]
    /\ pc' = "done"
    /\ UNCHANGED <<tool, batch, input, writable, todo, nfiles, success, calls,
                   out, last, exitCode>>

\* convert_file on a file, whose last stage before writing is truncate_ir.
TruncateFile ==
    /\ fin.op = "convert"
    /\ Return(convert_file_ir(Name(<<"a">>, "wav"), fin.content, TRUE))

NextTruncate == Truncate \/ TruncateFile

SpecTruncate == InitTruncate /\ [][NextTruncate]_vars

\* The rates resampled between, the longest sequence resampled, and the
\* length of the example of 100 samples.
Rates == {8800, 24000, 44100, 48000, 96000}

MaxResampleLen == 12

ExampleLen == 100

InitResample ==
    /\ NoMain /\ pc = "call" /\ fout = Idle
    /\ \E n \in (0..MaxResampleLen) \cup {ExampleLen}, s \in Rates, t \in Rates :
          fin = [op |-> "resample", x |-> Ramp(n), s |-> s, t |-> t]

Resample ==
    /\ fin.op = "resample"
    /\ Return(simple_resample(fin.x, fin.s, fin.t))

NextResample == Resample

SpecResample == InitResample /\ [][NextResample]_vars

\* The header files verified: the artifact generate_header emits for a
\* document parse_model accepts, an IR artifact, or some other text.
Emitted(d) ==
    LET model == parse_model(Name(<<"a">>, "json"), [kind |-> "json", text |-> d])
    IN  generate_header(model, <<"a">>)

HeaderOf(h) ==
    CASE h.from = "emit" -> Emitted(h.text)
      [] h.from = "ir"   ->
            convert_file_ir(Name(<<"a">>, "wav"),
                            Wav(48000, 1, 16, 3, 2, 1, 4), TRUE).header
      [] OTHER           -> Garbage

HeaderSources ==
    {[from |-> "emit", text |-> d] :
        d \in {x \in DocDescs :
                 parse_model(Name(<<"a">>, "json"),
                             [kind |-> "json", text |-> x]).ok}}
    \cup {[from |-> "ir"], [from |-> "other"]}

InitVerify ==
    /\ NoMain /\ pc = "call" /\ fout = Idle
    /\ \E j \in DocCat, h \in HeaderSources :
          fin = [op |-> "verify", json |-> j, header |-> h]

Verify ==
    /\ fin.op = "verify"
    /\ Return(verify_conversion(fin.json, HeaderOf(fin.header)))

NextVerify == Verify

SpecVerify == InitVerify /\ [][NextVerify]_vars

\* The nested lists flattened.  A rectangular nest of a given shape holds
\* the distinct numbers LeafNum(base), LeafNum(base + 1), ... in row-major
\* order; a graft replaces one top-level item by another value, which makes
\* the nest ragged, mixed or non-numeric; a wrap puts the whole in a list.
MaxNestDepth == 3

LeafNum(k) == Num(k % 2 = 1, k \div 4, 1000 * k + 7)

RECURSIVE Volume(_)
Volume(shape) == IF shape = <<>> THEN 1 ELSE shape[1] * Volume(Tail(shape))

RECURSIVE Nest(_, _)
Nest(shape, base) ==
    IF shape = <<>> THEN LeafNum(base)
    ELSE List([i \in 1..shape[1] |->
                 Nest(Tail(shape), base + (i - 1) * Volume(Tail(shape)))])

RECURSIVE ShapesUpTo(_)
ShapesUpTo(d) ==
    IF d = 0 THEN {}
    ELSE {<<w>> : w \in {0, 1, 2}}
         \cup {<<w>> \o sh : w \in {0, 1, 2}, sh \in ShapesUpTo(d - 1)}

Grafts ==
    { LeafNum(99), List(<<>>),
      List(<<LeafNum(98), List(<<LeafNum(97), LeafNum(96)>>)>>),
      Bool(TRUE), Null, Str(FALSE, Null), Str(TRUE, LeafNum(95)), Obj }

\* nest with its top-level item at pos replaced by x.
Graft(nest, pos, x) ==
    List([i \in DOMAIN nest.items |-> IF i = pos THEN x ELSE nest.items[i]])

Nests ==
    LET plain   == {[x |-> Nest(sh, 0), rect |-> TRUE] :
                       sh \in ShapesUpTo(MaxNestDepth)}
        grafted == {[x |-> Graft(n.x, pos, g), rect |-> FALSE] :
                       n \in {m \in plain : m.x.items # <<>>},
                       pos \in {1, 2}, g \in Grafts}
    IN  plain \cup grafted
           \cup {[x |-> List(<<n.x>>), rect |-> n.rect] : n \in plain \cup grafted}

\* flatten_weights of the converter; given a list it does not raise.
Flatten ==
    /\ fin.op = "flatten"
    /\ Return([ok |-> TRUE, arr |-> flatten_weights(fin.x)])

\* flatten_weights of the verifier.
FlattenNp ==
    /\ fin.op = "flatten_np"
    /\ Return(flatten_weights_f32(fin.x))

\* get_shape and flatten_weights of the inspector.
Shape ==
    /\ fin.op = "shape"
    /\ Return([shape |-> get_shape(fin.x),
               flat  |-> flatten_weights_inspect(fin.x)])

\* The sequences of at most n elements of S.
RECURSIVE SeqsUpTo(_, _)
SeqsUpTo(S, n) ==
    IF n = 0 THEN {<<>>}
    ELSE LET shorter == SeqsUpTo(S, n - 1)
         IN  shorter \cup {Append(q, c) : q \in shorter, c \in S}

\* The stems sanitized have at most MaxStemLen characters.
MaxStemLen == 3

Sanitize ==
    /\ fin.op = "sanitize"
    /\ Return(sanitize_name(fin.name))

\* The arrays compared have at most MaxCompareLen values.
MaxCompareLen == 2

Compare ==
    /\ fin.op = "compare"
    /\ Return(compare_arrays("kernel", fin.a, fin.b))

\* The sequences formatted: MaxFormatLen values at most, weights for the
\* model and NAM emitters and samples of both signs for the IR emitter.
MaxFormatLen == 17

FormatInputs(emitter, n) ==
    IF emitter = "ir"
    THEN {[k \in 1..n |-> Rat((IF k % 3 = 0 THEN -1 ELSE 1) * (k + d), 16)] :
             d \in {0, 5}}
    ELSE {[k \in 1..n |-> LeafNum(k + d)] : d \in {0, 5}}

Format ==
    /\ fin.op = "format"
    /\ Return(CASE fin.emitter = "model" -> format_array(fin.values, "kW")
               [] fin.emitter = "ir"    -> format_array_ir(fin.values, "kW")
               [] OTHER -> format_weights_array(fin.values, "kW"))

\* The WAV files read: at most MaxChunks chunks out of three fmt chunks
\* (16 bit, 24 bit and the unsupported 8 bit), two data chunks of 12 bytes
\* and an unknown chunk, followed by any tail; and a fmt chunk of each
\* supported depth followed by a data chunk of at most MaxDataBytes bytes.
MaxChunks == 3

MaxDataBytes == 6

WavChunks ==
    { [id |-> "fmt ", channels |-> 1, rate |-> 48000, bits |-> 16],
      [id |-> "fmt ", channels |-> 2, rate |-> 44100, bits |-> 24],
      [id |-> "fmt ", channels |-> 1, rate |-> 48000, bits |-> 8],
      [id |-> "data", raw |-> <<0, 128, 255, 127, 1, 0, 0, 0, 64, 0, 0, 192>>],
      [id |-> "data", raw |-> <<255, 255, 255, 0, 0, 64, 2, 1, 0, 52, 18, 128>>],
      [id |-> "LIST"] }

ReadWav ==
    /\ fin.op = "read_wav"
    /\ Return(read_wav_simple(fin.content))

\* test_model: between the calls a model is [lstm, dense, run, n, y]: the
\* two layers, the inputs forwarded since the last reset, the number of
\* forward calls so far and the last Dense output with the inputs since the
\* reset it was computed after (<<>> before the first).  At most MaxForwards
\* samples are fed.
MaxForwards == 4

LstmReset ==
    /\ pc = "lstm"
    /\ fout' = [fout EXCEPT !.lstm = reset(fout.lstm), !.run = <<>>]
    /\ UNCHANGED <<tool, batch, input, writable, todo, nfiles, success, calls,
                   out, last, exitCode, fin, pc>>

\* h = lstm.forward(np.array([x])) for x one of 0, 0.5 and 1.
LstmForward ==
    /\ pc = "lstm" /\ fout.n < MaxForwards
    /\ \E x \in {0, Unit \div 2, Unit} :
          fout' = [fout EXCEPT !.lstm = forward(fout.lstm, x),
                               !.run = Append(fout.run, x),
                               !.n = fout.n + 1]
    /\ UNCHANGED <<tool, batch, input, writable, todo, nfiles, success, calls,
                   out, last, exitCode, fin, pc>>

\* y = dense.forward(h)
DenseForward ==
    /\ pc = "lstm"
    /\ fout' = [fout EXCEPT !.y = <<[v |-> dense_forward(fout.dense,
                                                        fout.lstm.h),
                                     of |-> fout.run]>>]
    /\ UNCHANGED <<tool, batch, input, writable, todo, nfiles, success, calls,
                   out, last, exitCode, fin, pc>>

\* One call of one of the functions, on an input drawn at the start.  The
\* stems are over an alphabet with letters, digits, the underscore and
\* characters that are none of these; the float32 values compared are 0, 1,
\* 1 + 9 * 2^-23, -1, 10893246 * 2^-43 and 8388611 * 2^-45.
InitCalls ==
    /\ NoMain
    /\ \/ /\ pc = "lstm"
          /\ \E seed \in {1, 2} :
                /\ fin = [op |-> "lstm", seed |-> seed]
                /\ fout = [lstm |-> Models(seed).lstm,
                           dense |-> Models(seed).dense,
                           run |-> <<>>, n |-> 0, y |-> <<>>]
       \/ /\ pc = "call" /\ fout = Idle
          /\ \/ \E n \in Nests, op \in {"flatten", "flatten_np", "shape"} :
                   fin = [op |-> op, x |-> n.x, rect |-> n.rect]
             \/ \E st \in SeqsUpTo({"a", "Z", "_", "0", "9", "-", " ", "@", "[",
                                     "."}, MaxStemLen),
                   ext \in {"wav", "json"} :
                   fin = [op |-> "sanitize", name |-> Name(st, ext)]
             \/ LET arrays ==
                       SeqsUpTo({[neg |-> FALSE, e |-> 0, m |-> 0],
                                 [neg |-> FALSE, e |-> 0, m |-> 8388608],
                                 [neg |-> FALSE, e |-> 0, m |-> 8388617],
                                 [neg |-> TRUE, e |-> 0, m |-> 8388608],
                                 [neg |-> FALSE, e |-> -20, m |-> 10893246],
                                 [neg |-> FALSE, e |-> -22, m |-> 8388611]},
                                MaxCompareLen)
                IN  \E a \in arrays, b \in arrays :
                       fin = [op |-> "compare", a |-> a, b |-> b]
             \/ \E emitter \in {"model", "ir", "nam"}, n \in 0..MaxFormatLen :
                   \E values \in FormatInputs(emitter, n) :
                      fin = [op |-> "format", emitter |-> emitter,
                             values |-> values]
             \/ \E chunks \in SeqsUpTo(WavChunks, MaxChunks),
                   tail \in {"none", "id", "size"} :
                   fin = [op |-> "read_wav",
                          content |-> [kind |-> "riff", chunks |-> chunks,
                                       tail |-> tail]]
             \/ \E bits \in {16, 24, 32},
                   raw \in SeqsUpTo({0, 127, 128, 255}, MaxDataBytes) :
                   fin = [op |-> "read_wav",
                          content |->
                             [kind |-> "riff", tail |-> "none",
                              chunks |-> << [id |-> "fmt ", channels |-> 1,
                                             rate |-> 48000, bits |-> bits],
                                            [id |-> "data", raw |-> raw] >>]]

NextCalls ==
    \/ Flatten \/ FlattenNp \/ Shape \/ Sanitize \/ Compare \/ Format \/ ReadWav
    \/ LstmReset \/ LstmForward \/ DenseForward

SpecCalls == InitCalls /\ [][NextCalls]_vars

(***************************************************************************)
(* Properties of the converters.                                           *)
(***************************************************************************)
\* The file the last convert_file call was given.
LastInput ==
    IF input.kind = "file" THEN input.file
    ELSE CHOOSE f \in input.files : f.name = calls[Len(calls)].name

\* A convert_file call of the IR tool has written an artifact.
IRWritten == tool = "ir" /\ calls # <<>> /\ last.written

\* C1: for every IR that convert_file converts, the samples written have
\* max(|sample|) == 1.0, unless the source was silent, in which case all
\* samples are zero; for every source length, also beyond 2048 samples.
C1_PeakIsOne ==
    IRWritten =>
        IF last.peak = RZero
        THEN \A i \in DOMAIN last.samples : last.samples[i] = RZero
        ELSE PeakOf(last.samples) = ROne

\* C3: for both tools the exit code is 0 only when every item converted,
\* and 1 whenever an item of a batch, or the single item, failed.
C3_ExitCode ==
    pc = "exit" =>
        /\ exitCode = 0 => \A i \in DOMAIN calls : calls[i].ok
        /\ (\E i \in DOMAIN calls : ~calls[i].ok) => exitCode = 1

\* The batch loop has been entered.
InBatch == batch /\ pc # "start" /\ input.kind = "dir"
           /\ Collected(tool, input.files) # {}

\* C4: in a batch an error in one file never aborts the run: convert_file
\* is called exactly once for every matching file of the directory, and the
\* success count reported is the number of calls that returned True.
C4_BatchNeverAborts ==
    /\ InBatch =>
          /\ \A i, j \in DOMAIN calls :
                calls[i].name = calls[j].name => i = j
          /\ \A i \in DOMAIN calls :
                \E f \in Collected(tool, input.files) : f.name = calls[i].name
          /\ success = Cardinality({i \in DOMAIN calls : calls[i].ok})
          /\ Len(calls) + Len(todo) = nfiles
          /\ nfiles = Cardinality(Collected(tool, input.files))
    /\ InBatch /\ pc = "exit" =>
          /\ exitCode = 0
          /\ \A f \in Collected(tool, input.files) :
                \E i \in DOMAIN calls : calls[i].name = f.name

\* A batch that went on after a failed conversion.
C4_Witness ==
    /\ InBatch /\ pc = "exit"
    /\ Len(calls) = 2 /\ ~calls[1].ok /\ calls[2].ok /\ success = 1

\* The last call of the model converter parsed a model.
ModelParsed == tool = "aidax" /\ calls # <<>> /\ "model" \in DOMAIN last

\* C5: the model converter writes an artifact only for architecture lstm
\* with hidden_size 12; any other parsed model makes convert_file return
\* False and write nothing.
C5_OnlyLstm12 ==
    /\ ModelParsed =>
          LET lstm12 == /\ last.model.architecture = "lstm"
                        /\ last.model.hidden_size = 12
          IN  /\ last.written => lstm12
              /\ ~lstm12 => ~last.ok /\ ~last.written
    /\ tool = "aidax" =>
          \A id \in DOMAIN out :
              out[id].kArchitecture = "LSTM" /\ out[id].kHiddenSize = 12

\* A GRU model with hidden_size 12 was parsed and turned down.
C5_Witness ==
    /\ ModelParsed /\ last.model.architecture = "gru"
    /\ last.model.hidden_size = 12 /\ ~last.ok /\ out = <<>>

\* C6: every model parse_model returns has len(kernel) = gates * hidden,
\* len(recurrent) = hidden * gates * hidden and len(bias) = gates * hidden
\* (4 gates for lstm, 3 for gru); a written one has lengths 48, 576, 48.
C6_TensorSizes ==
    ModelParsed =>
        LET m     == last.model
            gates == IF m.architecture = "lstm" THEN 4 ELSE 3
        IN  /\ Len(m.weights.kernel) = gates * m.hidden_size
            /\ Len(m.weights.recurrent) = m.hidden_size * gates * m.hidden_size
            /\ Len(m.weights.bias) = gates * m.hidden_size
            /\ last.written =>
                  /\ Len(m.weights.kernel) = 48
                  /\ Len(m.weights.recurrent) = 576
                  /\ Len(m.weights.bias) = 48

\* C7: parse_model accepts a document only if it has at least 2 layers,
\* layer 0 is lstm or gru with exactly 3 weight tensors and layer 1 is
\* dense with exactly 2 weight tensors.
C7_ExactTensorCounts ==
    ModelParsed =>
        \A layers \in {JsonLoad(LastInput.content.text).layers} :
            /\ Len(layers) >= 2
            /\ Lower(layers[1].type) \in {"lstm", "gru"}
            /\ Len(layers[1].weights) = 3
            /\ Lower(layers[2].type) = "dense"
            /\ Len(layers[2].weights) = 2

(***************************************************************************)
(* Properties of the functions on their own.                               *)
(***************************************************************************)
Called(op) == pc = "done" /\ fin.op = op

\* C2: for every sequence x and limit N, len(truncate_ir(x, N)) <= N, and
\* == N whenever len(x) >= N; hence every IR convert_file writes has at
\* most 2048 samples.
C2_TruncationBound ==
    /\ Called("truncate") =>
          /\ Len(fout) <= fin.N
          /\ Len(fin.x) >= fin.N => Len(fout) = fin.N
    /\ Called("convert") /\ fout.written =>
          /\ Len(fout.samples) <= MAX_IR_LENGTH
          /\ fout.loaded_length >= MAX_IR_LENGTH
                => Len(fout.samples) = MAX_IR_LENGTH
          /\ fout.header.kLength = Len(fout.samples)

\* A sequence longer than a limit that has a fade was cut to the limit.
C2_Witness ==
    /\ Called("truncate")
    /\ Len(fin.x) > fin.N /\ fin.N >= 8 /\ Len(fout) = fin.N
    /\ fout[fin.N] # fin.x[fin.N]

\* The mismatch records of all five tensors of two parsed files, in order.
AllMismatches(j, c) ==
    LET per == [k \in DOMAIN TensorNames |->
                  compare_arrays(TensorNames[k], Tensor(j, TensorNames[k]),
                                 Tensor(c, TensorNames[k]))]
    IN  ConcatRange(per, 1, Len(per))

\* C8, as amended: when both files parse, verify_conversion returns True
\* iff no mismatch record was produced across the five tensors, all five
\* are compared, and a mismatch in one does not stop the later ones; when a
\* file does not parse it returns False without comparing any tensor.  It
\* always returns.
C8_PassIffNoMismatch ==
    Called("verify") =>
        \A j \in {parse_json_model(fin.json)},
           c \in {parse_cpp_header(HeaderOf(fin.header))} :
            IF j.ok /\ c.ok
            THEN /\ fout.report = AllMismatches(j, c)
                 /\ fout.ret <=> fout.report = <<>>
                 /\ fout.compared = TensorNames
                 /\ fout.total_mismatches = Len(fout.report)
            ELSE /\ fout.ret = FALSE
                 /\ fout.report = <<>>
                 /\ fout.compared = <<>>

\* A run that reported a mismatch in the kernel and another in the bias.
C8_Witness ==
    /\ Called("verify") /\ ~fout.ret
    /\ \E a, b \in DOMAIN fout.report :
          /\ a < b
          /\ fout.report[a].name = "kernel"
          /\ fout.report[b].name = "bias"

\* C8 as stated: PASS iff no mismatch record was produced, all five tensors
\* being compared in every run.
C8_AsStated ==
    Called("verify") =>
        /\ fout.ret <=> fout.report = <<>>
        /\ fout.compared = TensorNames

\* The JSON file and the header verified come from one accepted model.
RoundTrip ==
    /\ fin.json.kind = "json"
    /\ fin.header.from = "emit" /\ fin.header.text = fin.json.text
    /\ \E model \in {parse_model(Name(<<"a">>, "json"), fin.json)} :
          model.ok /\ validate_model(model).valid

\* C9: for every model parse_model and validate_model accept, verifying the
\* model's JSON against the header generate_header emits for it passes.
C9_RoundTripPasses ==
    Called("verify") /\ RoundTrip => fout.ret /\ fout.report = <<>>

\* C10: for rates s # t, len(simple_resample(x, s, t)) is
\* floor(len(x) * t / s).
C10_ResampleLength ==
    Called("resample") /\ fin.s # fin.t =>
        Len(fout) = (Len(fin.x) * fin.t) \div fin.s

\* C11: for every sample sequence x and every rate r, simple_resample(x, r, r)
\* is x: the same length and the same value at every index.
C11_ResampleIdentity ==
    Called("resample") /\ fin.s = fin.t =>
        /\ Len(fout) = Len(fin.x)
        /\ \A i \in DOMAIN fin.x : fout[i] = fin.x[i]

\* A sequence of several samples was resampled from a rate to that rate,
\* which is not the target rate of the converter.
C11_Witness ==
    /\ Called("resample") /\ fin.s = fin.t /\ fin.s # TARGET_SAMPLE_RATE
    /\ Len(fin.x) > 1 /\ Len(fout) > 1

(***************************************************************************)
(* Properties of the flattening functions.  The leaves of a nest are told  *)
(* by their paths: the sequence of indices that leads from the top to a    *)
(* value that is not a list.                                               *)
(***************************************************************************)
RECURSIVE LeafPaths(_)
LeafPaths(nest) ==
    IF nest.t # "list" THEN {<<>>}
    ELSE UNION {{<<i>> \o p : p \in LeafPaths(nest.items[i])} :
                   i \in DOMAIN nest.items}

RECURSIVE LeafAt(_, _)
LeafAt(nest, p) ==
    IF p = <<>> THEN nest ELSE LeafAt(nest.items[Head(p)], Tail(p))

\* p comes before q in a depth-first, left-to-right traversal.
Earlier(p, q) ==
    \E i \in 1..Min(Len(p), Len(q)) :
        p[i] < q[i] /\ \A j \in 1..(i - 1) : p[j] = q[j]

\* The position of the leaf at p among the leaves of paths P.
RankOf(P, p) == Cardinality({q \in P : Earlier(q, p)}) + 1

AllNumbers(nest) == \A p \in LeafPaths(nest) : LeafAt(nest, p).t = "num"

\* C12: for every nested list of numbers of any depth, flatten_weights
\* returns exactly the leaves in depth-first, left-to-right order: as many
\* values as there are leaves, the k-th value being the k-th leaf (in the
\* verifier, its float32).
C12_FlattenOrder ==
    (Called("flatten") \/ Called("flatten_np")) /\ AllNumbers(fin.x) =>
        \A P \in {LeafPaths(fin.x)} :
            /\ fout.ok
            /\ Len(fout.arr) = Cardinality(P)
            /\ \A p \in P :
                  fout.arr[RankOf(P, p)] =
                      IF fin.op = "flatten" THEN LeafAt(fin.x, p)
                      ELSE F32OfNum(LeafAt(fin.x, p))

\* A ragged nest of numbers, three lists deep, was flattened by the
\* converter.
C12_Witness ==
    /\ Called("flatten") /\ AllNumbers(fin.x) /\ ~fin.rect
    /\ \E p \in LeafPaths(fin.x) : Len(p) = 3
    /\ \E p \in LeafPaths(fin.x) : Len(p) = 1
    /\ Len(fout.arr) >= 4

(***************************************************************************)
(* Properties of sanitize_name.  Characters are told by their code points. *)
(***************************************************************************)
IsDigit(c) == Ord(c) \in 48..57

IsWordChar(c) ==
    IsDigit(c) \/ Ord(c) \in 65..90 \/ Ord(c) \in 97..122 \/ Ord(c) = 95

\* C13: sanitize_name maps a name with a non-empty stem to an identifier
\* of characters [A-Za-z0-9_] that does not start with a digit: a stem
\* character outside that set is replaced by '_' in place, any other is
\* kept, and one '_' is prepended exactly when the stem starts with a digit.
C13_SanitizedIdentifier ==
    Called("sanitize") /\ fin.name.stem # <<>> =>
        \A stem \in {fin.name.stem} :
        \A shift \in {IF IsDigit(stem[1]) THEN 1 ELSE 0} :
            /\ fout.ok
            /\ \A i \in DOMAIN fout.id : IsWordChar(fout.id[i])
            /\ ~IsDigit(fout.id[1])
            /\ Len(fout.id) = Len(stem) + shift
            /\ shift = 1 => fout.id[1] = "_"
            /\ \A i \in DOMAIN stem :
                  fout.id[i + shift] =
                      IF IsWordChar(stem[i]) THEN stem[i] ELSE "_"

\* A stem that starts with a digit and holds a character that is replaced
\* was sanitized.
C13_Witness ==
    /\ Called("sanitize") /\ Len(fin.name.stem) = 3
    /\ IsDigit(fin.name.stem[1]) /\ ~IsWordChar(fin.name.stem[2])
    /\ fout.ok /\ Len(fout.id) = 4

\* |a - b| > 10^-6 in exact arithmetic, for float32 a and b that are zero,
\* at most 6 exponents apart, or further apart with the larger at least
\* 2^-18: D is |a - b| in units of 2^(u - 23), and D * 10^6 > 2^(23 - u)
\* exactly when D > floor(2^(17 - u) / 5^6).
DiffOverTolerance(a, b) ==
    IF a.m # 0 /\ b.m # 0 /\ Abs(a.e - b.e) > 6
    THEN (IF a.e > b.e THEN a.e ELSE b.e) >= -18
    ELSE LET za == a.m = 0
             zb == b.m = 0
             u  == IF za THEN b.e ELSE IF zb THEN a.e ELSE Min(a.e, b.e)
             sa == (IF a.neg THEN -1 ELSE 1) * a.m
                     * (IF za THEN 1 ELSE Pow2(a.e - u))
             sb == (IF b.neg THEN -1 ELSE 1) * b.m
                     * (IF zb THEN 1 ELSE Pow2(b.e - u))
         IN  Abs(sa - sb) > LongDiv(1, 15625, 17 - u).q

\* C14: compare_arrays on arrays of different lengths returns exactly one
\* size-mismatch record and no value-mismatch record; on arrays of equal
\* length it returns exactly one value-mismatch record for every index where
\* the absolute difference exceeds the tolerance 1e-6 and none for the other
\* indices (so arrays differing by more than the tolerance at a single index
\* k yield exactly one record, at index k).
C14_CompareRecords ==
    Called("compare") =>
        IF Len(fin.a) # Len(fin.b)
        THEN /\ Len(fout) = 1
             /\ fout[1].type = "size_mismatch"
             /\ fout[1].json_size = Len(fin.a)
             /\ fout[1].cpp_size = Len(fin.b)
        ELSE /\ \A k \in DOMAIN fout : fout[k].type = "value_mismatch"
             /\ \A i \in DOMAIN fin.a :
                   Cardinality({k \in DOMAIN fout : fout[k].index = i - 1})
                     = IF DiffOverTolerance(fin.a[i], fin.b[i]) THEN 1 ELSE 0

\* The text of one value as its emitter writes it.
TokenOf(emitter, v) == IF emitter = "ir" THEN FormatSigned8(v) ELSE Format8(v)

\* C15: for a flat sequence of n values and row width N (8 in the model and
\* NAM emitters, 6 in the IR emitter) the array holds ceil(n / N) rows, every
\* row but the last holds N values and the last between 1 and N, the values
\* of the rows read in order are the n input values, and every row except
\* the last ends with a comma while the last does not.
C15_FormatRows ==
    Called("format") =>
        LET N    == IF fin.emitter = "ir" THEN 6 ELSE 8
            n    == Len(fin.values)
            rows == fout.rows
            R    == Len(rows)
        IN  /\ R * N >= n /\ (R = 0 \/ (R - 1) * N < n)
            /\ \A r \in 1..R :
                  /\ Len(rows[r].tokens) \in 1..N
                  /\ r < R => Len(rows[r].tokens) = N
                  /\ rows[r].comma = (r < R)
                  /\ \A k \in DOMAIN rows[r].tokens :
                        /\ (r - 1) * N + k <= n
                        /\ rows[r].tokens[k]
                             = TokenOf(fin.emitter, fin.values[(r - 1) * N + k])
            /\ \A i \in 1..n :
                  /\ ((i - 1) \div N) + 1 <= R
                  /\ ((i - 1) % N) + 1 <= Len(rows[((i - 1) \div N) + 1].tokens)

\* An array of three rows whose last row is not full has been formatted.
C15_Witness ==
    /\ Called("format") /\ Len(fout.rows) = 3
    /\ Len(fout.rows[3].tokens) < Len(fout.rows[1].tokens)
    /\ fout.rows[1].comma /\ ~fout.rows[3].comma

\* No list of the nest is empty.
RECURSIVE NoEmptyList(_)
NoEmptyList(nest) ==
    nest.t = "list" =>
        /\ nest.items # <<>>
        /\ \A i \in DOMAIN nest.items : NoEmptyList(nest.items[i])

\* product(shape) == len(flat_sequence), every entry of the shape positive.
ShapeMatchesFlat ==
    /\ fout.flat.ok
    /\ Volume(fout.shape) = Len(fout.flat.arr)
    /\ \A i \in DOMAIN fout.shape : fout.shape[i] > 0

\* C16: for every rectangular nested list of numbers, of any depth and with
\* sub-lists of any length other than zero, the product of the entries of
\* get_shape(nest) equals len(flatten_weights(nest)) and every entry of the
\* shape is a positive integer.
C16_ShapeProduct ==
    Called("shape") /\ fin.rect /\ NoEmptyList(fin.x) => ShapeMatchesFlat

\* A nest of depth three or more with more than four numbers was inspected.
C16_Witness ==
    /\ Called("shape") /\ fin.rect /\ NoEmptyList(fin.x)
    /\ Len(fout.shape) >= 3 /\ Len(fout.flat.arr) > 4

\* C16 as stated, for sub-lists of any length, the empty list included.
C16_AsStated ==
    Called("shape") /\ fin.rect => ShapeMatchesFlat

\* C17: flattening a nested array with a leaf that is not a number (a
\* string, null, a boolean or an object) raises and returns no sequence, in
\* the converter's flatten_weights and in the verifier's alike.
C17_NonNumericLeafRaises ==
    (Called("flatten") \/ Called("flatten_np")) /\ ~AllNumbers(fin.x)
        => ~fout.ok

\* The call raised the error e.
Raised(e) == ~fout.ok /\ fout.err = e

\* The positions of the chunks with the given id.
ChunksAt(chunks, id) == {k \in DOMAIN chunks : chunks[k].id = id}

\* A file of the given chunks and nothing else.
Riff(chunks) == [kind |-> "riff", chunks |-> chunks, tail |-> "none"]

\* C18: for a file of well-formed chunks with at most one fmt and one data
\* chunk, in any order, read_wav_simple raises the invalid-structure error
\* if and only if the fmt or the data chunk is absent; when both are present
\* it raises the unsupported-bit-depth error if and only if the fmt chunk
\* declares a depth other than 16, 24 or 32, and otherwise returns what it
\* returns for the fmt chunk followed by the data chunk.
C18_ErrorsByStructure ==
    /\ Called("read_wav") /\ fin.content.tail = "none"
    /\ Cardinality(ChunksAt(fin.content.chunks, "fmt ")) <= 1
    /\ Cardinality(ChunksAt(fin.content.chunks, "data")) <= 1
    => LET chunks == fin.content.chunks
           F == ChunksAt(chunks, "fmt ")
           D == ChunksAt(chunks, "data")
       IN  /\ Raised("Invalid WAV file structure") <=> (F = {} \/ D = {})
           /\ \A f \in F, d \in D :
                 /\ Raised("Unsupported bit depth")
                      <=> chunks[f].bits \notin {16, 24, 32}
                 /\ chunks[f].bits \in {16, 24, 32}
                      => fout = read_wav_simple(Riff(<<chunks[f], chunks[d]>>))

\* C19: once a fmt and a data chunk have been read the scan is over: what
\* follows them in the file (unknown chunks, further fmt or data chunks, a
\* truncated chunk) changes neither the result nor whether the call
\* succeeds, which are those of the file cut after the chunk that completes
\* the pair.
C19_ScanStopsWhenBothFound ==
    Called("read_wav") =>
        \A p \in DOMAIN fin.content.chunks :
            LET Both(n) ==
                   /\ ChunksAt(SubSeq(fin.content.chunks, 1, n), "fmt ") # {}
                   /\ ChunksAt(SubSeq(fin.content.chunks, 1, n), "data") # {}
            IN  Both(p) /\ ~Both(p - 1)
                  => fout = read_wav_simple(
                               Riff(SubSeq(fin.content.chunks, 1, p)))

\* A file that is one fmt chunk of w bytes per sample followed by one data
\* chunk of a whole number of samples, with no chunk header after it.
PcmFile(w) ==
    /\ Called("read_wav") /\ fin.content.tail # "size"
    /\ Len(fin.content.chunks) = 2
    /\ fin.content.chunks[1].id = "fmt "
    /\ fin.content.chunks[1].bits = 8 * w
    /\ fin.content.chunks[2].id = "data"
    /\ Len(fin.content.chunks[2].raw) % w = 0

\* C20: read from a file whose fmt chunk precedes its data chunk, a 16-bit
\* data chunk of 2n bytes decodes into exactly n samples, each
\* the little-endian two's-complement 16-bit integer (in -32768..32767)
\* divided by 32768, and a 24-bit data chunk of 3n bytes into exactly n
\* samples, each the sign-extended little-endian 24-bit integer (in
\* -8388608..8388607) divided by 8388608; every sample lies in [-1, 1].
C20_PcmDecode ==
    \A w \in {2, 3} :
        PcmFile(w) =>
            LET raw  == fin.content.chunks[2].raw
                full == Pow2(8 * w - 1)
            IN  /\ fout.ok
                /\ Len(fout.audio_data) * w = Len(raw)
                /\ \A i \in DOMAIN fout.audio_data :
                      LET s == fout.audio_data[i]       \* <<n, d>>, reduced
                          v == s[1] * (full \div s[2])  \* the integer read
                          u == raw[w * (i - 1) + 1]
                                 + 256 * raw[w * (i - 1) + 2]
                                 + (IF w = 3 THEN 65536 * raw[w * i] ELSE 0)
                      IN  /\ s[2] > 0 /\ full % s[2] = 0
                          /\ -full <= v /\ v < full
                          /\ (v - u) % (2 * full) = 0
                          /\ -s[2] <= s[1] /\ s[1] <= s[2]

\* Two 24-bit samples were decoded, the first negative, the second not.
C20_Witness ==
    /\ PcmFile(3) /\ fout.ok /\ Len(fout.audio_data) = 2
    /\ fout.audio_data[1][1] < 0 /\ fout.audio_data[2][1] > 0

\* The orders in which the files of S can be processed.
Orders(S) ==
    {q \in [1..Cardinality(S) -> S] :
        \A i, j \in 1..Cardinality(S) : i # j => q[i] # q[j]}

\* The output directory and the success count once convert_file has
\* returned r.
Absorb(acc, r) ==
    [out     |-> IF r.written
                 THEN [x \in DOMAIN acc.out \cup {r.identifier} |->
                         IF x = r.identifier THEN r.header ELSE acc.out[x]]
                 ELSE acc.out,
     success |-> IF r.ok THEN acc.success + 1 ELSE acc.success]

\* The outcome of a batch that processes the files in the order q.
RECURSIVE BatchOutcome(_, _, _)
BatchOutcome(q, k, acc) ==
    IF k > Len(q) THEN acc
    ELSE BatchOutcome(q, k + 1,
                      Absorb(acc, ConvertFile(tool, q[k], writable)))

\* C21: a batch is order-insensitive: the artifacts present after it, the
\* content of each and the success count are those of every order in which
\* the files could be processed, and no conversion overwrites an artifact
\* written by the conversion of another file, so that there are as many
\* artifacts as conversions that succeeded.
C21_OrderInsensitive ==
    InBatch =>
        /\ Cardinality(DOMAIN out)
             = Cardinality({i \in DOMAIN calls : calls[i].ok})
        /\ pc = "exit" =>
              \A q \in Orders(Collected(tool, input.files)) :
                  BatchOutcome(q, 1, [out |-> <<>>, success |-> 0])
                    = [out |-> out, success |-> success]

\* The LSTM of the model under test as constructed, then fed the inputs of
\* run from index k on.
RECURSIVE Fed(_, _, _)
Fed(lstm, run, k) ==
    IF k > Len(run) THEN lstm ELSE Fed(forward(lstm, run[k]), run, k + 1)

\* The state is zero when nothing was fed since construction or the last
\* reset, and state and outputs are those of a new LSTM fed the inputs
\* since the reset.
StateFromRunOnly ==
    pc = "lstm" =>
        /\ fout.run = <<>> =>
              \A i \in 1..hidden_size :
                  fout.lstm.h[i] = 0 /\ fout.lstm.c[i] = 0
        /\ fout.lstm = Fed(Models(fin.seed).lstm, fout.run, 1)
        /\ fout.y # <<>> =>
              fout.y[1].v
                = dense_forward(Models(fin.seed).dense,
                                Fed(Models(fin.seed).lstm, fout.y[1].of, 1).h)

\* C22: the state (h, c) of the reference LSTM is all-zero after
\* construction and after every reset(), only forward() and reset() change
\* it (Dense.forward changes nothing), and the outputs of the inputs fed
\* after a reset depend only on the weights and on those inputs, not on the
\* forward calls made before the reset; so the impulse gives the same
\* first-sample output on every run.
C22_StateResets ==
    /\ []StateFromRunOnly
    /\ [][pc = "lstm" /\ fout'.lstm # fout.lstm
            => \/ fout'.n = fout.n + 1
               \/ fout'.n = fout.n /\ fout'.run = <<>> /\ fout'.y = fout.y]_vars

\* The first output of an impulse was computed after a reset that followed
\* two forward calls or more, which had left a state other than zero.
C22_Witness ==
    /\ pc = "lstm" /\ fout.n >= 3 /\ fout.run = <<Unit>>
    /\ fout.y # <<>> /\ fout.y[1].of = <<Unit>> /\ fout.y[1].v # 0
    /\ \E i \in 1..hidden_size : fout.lstm.c[i] # 0

\* The multiplier of the k-th faded sample, k counted from 0.
FadeAt(k, fade_len) == RSub(ROne, Rat(k, fade_len))

\* a < b for two rationals.
RLess(a, b) == RLeq(a, b) /\ a # b

\* C23: for a sequence x longer than N, truncate_ir(x, N) with fade_len =
\* min(64, N // 8) returns y of length N with y[j] = x[j] for every
\* j < N - fade_len and y[N - fade_len + k] = x[N - fade_len + k] *
\* (1 - k / fade_len) for every 0 <= k < fade_len; the multiplier is 1 for
\* k = 0, decreases strictly and never reaches 0; x itself is not modified.
\* For len(x) <= N the sequence is returned unchanged, with no fade.
C23_FadeOut ==
    Called("truncate") =>
        LET x  == Ramp(Len(fin.x))            \* the sequence passed
            N  == fin.N
            fl == Min(64, N \div 8)
        IN  /\ fin.x = x
            /\ Len(x) <= N => fout = x
            /\ Len(x) > N =>
                  /\ Len(fout) = N
                  /\ \A j \in 0..(N - fl - 1) : fout[j + 1] = x[j + 1]
                  /\ \A k \in 0..(fl - 1) :
                        /\ fout[N - fl + k + 1]
                             = RMul(x[N - fl + k + 1], FadeAt(k, fl))
                        /\ RLess(RZero, FadeAt(k, fl))
                        /\ k = 0 => FadeAt(k, fl) = ROne
                        /\ k > 0 => RLess(FadeAt(k, fl), FadeAt(k - 1, fl))

\* A sequence was cut with a fade over three samples, the last of which is
\* a third of the input's sample.
C23_Witness ==
    /\ Called("truncate") /\ Len(fin.x) > fin.N /\ fin.N \div 8 = 3
    /\ fout[fin.N] = RMul(fin.x[fin.N], Rat(1, 3))
    /\ fout[fin.N - 3] = fin.x[fin.N - 3]
====
